---- MODULE Spec2Model ----
(***************************************************************************)
(* Model of the profile-optimizer decision core: the member graph's edge   *)
(* upsert (app/tools/graph_tools.py) and the question delivery tracker     *)
(* (app/api/mobile_endpoints.py, app/tools/targeting_tools.py).            *)
(***************************************************************************)
EXTENDS Integers, Sequences, FiniteSets, TLC

VARIABLES edges, ew, eLast, eMax, eCalls,
          deliveries, members, dw, dLast, dOps,
          sc, bt, qb, tp

edgeVars == <<edges, ew, eLast, eMax, eCalls>>
deliveryVars == <<deliveries, members, dw, dLast, dOps>>
targetingVars == <<sc, bt>>
queueVars == <<qb>>
tasteVars == <<tp>>
vars == <<edges, ew, eLast, eMax, eCalls, deliveries, members, dw, dLast, dOps,
          sc, bt, qb, tp>>

(***************************************************************************)
(* Bounds of the model.                                                    *)
(***************************************************************************)
MaxEdgeCalls == 2
MaxDeliveryOps == 2
\* Requests in one race for a card, the one that shows the card included.
MaxRaceOps == 3

Workers == {"w1", "w2"}

(***************************************************************************)
(* Inputs of save_edge.  Member id 0 stands for a missing (None) id, the   *)
(* empty string for a missing edge_type.                                   *)
(***************************************************************************)
MemberIds == {1, 2}
MemberIdInputs == {0} \cup MemberIds
EdgeType == {"shared_skill", "shared_interest"}
EdgeTypeInputs == EdgeType \cup {"", "friend_of"}
StrengthInputs == {-1, 40, 70, 101}

\* An evidence value: a list (kept as the set of its items) or a scalar.
ListValue(S) == [isList |-> TRUE, items |-> S, scalar |-> ""]
ScalarValue(x) == [isList |-> FALSE, items |-> {}, scalar |-> x]

EmptyEvidence == [k \in {} |-> ScalarValue("")]
EvidenceInputs ==
    { EmptyEvidence,
      ("shared_skills" :> ListValue({"python"})) @@ ("notes" :> ScalarValue("n1")),
      ("shared_skills" :> ListValue({"rust"})),
      ("shared_skills" :> ScalarValue("sql")) @@ ("notes" :> ScalarValue("n2")) }

(***************************************************************************)
(* save_edge, app/tools/graph_tools.py                                     *)
(***************************************************************************)
\* Mutant: the self-edge check is missing.
ValidateEdge_NoSelfCheck(a, b, t, s) ==
    IF a = 0 \/ b = 0 THEN "error_member_required"
    ELSE IF t = "" THEN "error_type_required"
    ELSE IF t \notin EdgeType THEN "error_invalid_type"
    ELSE IF ~(0 <= s /\ s <= 100) THEN "error_strength_range"
    ELSE "ok"

\* Validation, in the order of the code; "ok" when every check passes.
ValidateEdge(a, b, t, s) ==
    IF a = 0 \/ b = 0 THEN "error_member_required"
    ELSE IF a = b THEN "error_self_edge"
    ELSE IF t = "" THEN "error_type_required"
    ELSE IF t \notin EdgeType THEN "error_invalid_type"
    ELSE IF ~(0 <= s /\ s <= 100) THEN "error_strength_range"
    ELSE "ok"

\* Mutant: the pair is stored in the order given.
NormalizedA_AsGiven(a, b) == a

NormalizedA(a, b) == IF a < b THEN a ELSE b
NormalizedB(a, b) == IF a < b THEN b ELSE a

\* The ids (row numbers) of the active rows the lookup selects.
ExistingEdgeIds(E, na, nb, t) ==
    { i \in 1..Len(E) : /\ E[i].member_a_id = na
                        /\ E[i].member_b_id = nb
                        /\ E[i].edge_type = t
                        /\ E[i].is_active }

\* Mutant: any different strength overwrites (last writer wins).
ShouldUpdate_Overwrite(s, existingStrength) == s # existingStrength

\* "if strength > existing_edge.strength"
ShouldUpdate(s, existingStrength) == s > existingStrength

\* Mutant: every key of the new evidence replaces the old value.
MergeEvidence_Replace(old, new) ==
    [k \in (DOMAIN old) \cup (DOMAIN new) |->
        IF k \in DOMAIN new THEN new[k] ELSE old[k]]

\* The merge loop over evidence.items().
MergeEvidence(old, new) ==
    [k \in (DOMAIN old) \cup (DOMAIN new) |->
        IF k \in DOMAIN new
        THEN IF k \in DOMAIN old /\ old[k].isList /\ new[k].isList
             THEN ListValue(old[k].items \cup new[k].items)
             ELSE new[k]
        ELSE old[k]]

\* "if evidence:" guards the merge: an empty dict merges nothing.
UpdatedEvidence(old, new) ==
    IF DOMAIN new = {} THEN old ELSE MergeEvidence(old, new)

NewEdge(na, nb, t, s, ev) ==
    [member_a_id |-> na, member_b_id |-> nb, edge_type |-> t,
     strength |-> s, evidence |-> ev, is_active |-> TRUE]

NoCall == [kind |-> "none", a |-> 0, b |-> 0, t |-> "", s |-> 0,
           ev |-> EmptyEvidence, status |-> "", id |-> 0,
           seenStrength |-> 0, seenEvidence |-> EmptyEvidence]

IdleWorker == [pc |-> "idle", a |-> 0, b |-> 0, t |-> "", s |-> 0,
               ev |-> EmptyEvidence, existing |-> 0,
               seenStrength |-> 0, seenEvidence |-> EmptyEvidence]

EdgeKeys == { <<a, b, t>> \in MemberIds \X MemberIds \X EdgeType : a < b }

Max2(x, y) == IF x > y THEN x ELSE y

\* The write half of save_edge: from the row the lookup returned (id 0 for
\* none, with the strength and evidence the session read) to the new table.
EdgesAfterSave(E, id, seenStrength, seenEvidence, na, nb, t, s, ev) ==
    IF id # 0
    THEN IF ShouldUpdate(s, seenStrength)
         THEN [E EXCEPT ![id].strength = s,
                        ![id].evidence = UpdatedEvidence(seenEvidence, ev)]
         ELSE E
    ELSE Append(E, NewEdge(na, nb, t, s, ev))

SaveStatus(id, seenStrength, s) ==
    IF id # 0
    THEN IF ShouldUpdate(s, seenStrength) THEN "updated" ELSE "already_exists"
    ELSE "created"

CallRecord(a, b, t, s, ev, status, id, seenStrength, seenEvidence) ==
    [kind |-> "save", a |-> a, b |-> b, t |-> t, s |-> s, ev |-> ev,
     status |-> status, id |-> id,
     seenStrength |-> seenStrength, seenEvidence |-> seenEvidence]

\* The strongest strength accepted so far for the call's canonical key.
MaxAfter(M, na, nb, t, s) ==
    [M EXCEPT ![<<na, nb, t>>] = Max2(@, s)]

\* One whole save_edge call, run with no other call in flight.
SaveEdge(a, b, t, s, ev) ==
    /\ eCalls < MaxEdgeCalls
    /\ \A w \in Workers : ew[w].pc = "idle"
    /\ eCalls' = eCalls + 1
    /\ UNCHANGED ew
    /\ LET v == ValidateEdge(a, b, t, s)
           na == NormalizedA(a, b)
           nb == NormalizedB(a, b)
           found == ExistingEdgeIds(edges, na, nb, t)
       IN IF v # "ok"
          THEN /\ eLast' = CallRecord(a, b, t, s, EmptyEvidence, v, 0, 0, EmptyEvidence)
               /\ UNCHANGED <<edges, eMax>>
          ELSE IF Cardinality(found) > 1
          THEN /\ eLast' = CallRecord(a, b, t, s, ev, "raised_multiple_results",
                                      0, 0, EmptyEvidence)
               /\ UNCHANGED <<edges, eMax>>
          ELSE LET id == IF found = {} THEN 0 ELSE CHOOSE i \in found : TRUE
                   ss == IF id = 0 THEN 0 ELSE edges[id].strength
                   se == IF id = 0 THEN EmptyEvidence ELSE edges[id].evidence
               IN /\ edges' = EdgesAfterSave(edges, id, ss, se, na, nb, t, s, ev)
                  /\ eMax' = MaxAfter(eMax, na, nb, t, s)
                  /\ eLast' = CallRecord(a, b, t, s, ev, SaveStatus(id, ss, s),
                                         IF id = 0 THEN Len(edges) + 1 ELSE id,
                                         ss, se)

EdgeInit ==
    /\ edges = << >>
    /\ ew = [w \in Workers |-> IdleWorker]
    /\ eLast = NoCall
    /\ eMax = [k \in EdgeKeys |-> -1]
    /\ eCalls = 0

(***************************************************************************)
(* The delivery tracker: app/api/mobile_endpoints.py and                   *)
(* assign_question_to_member of app/tools/targeting_tools.py.              *)
(***************************************************************************)
\* The questions and members of the database.  Id 99 names no row.
QuestionIds == {7, 8}
DMemberIds == {3, 4}
QuestionIdInputs == QuestionIds \cup {99}
DMemberIdInputs == DMemberIds \cup {99}
DeliveryChannel == {"mobile_swipe", "email"}

Questions ==
    (7 :> [is_active |-> TRUE, deck_active |-> TRUE, difficulty_level |-> 1,
           order_index |-> 0, relevant_member_ids |-> << >>,
           question_type |-> "yes_no", targeting_criteria |-> {}])
    @@
    (8 :> [is_active |-> TRUE, deck_active |-> TRUE, difficulty_level |-> 2,
           order_index |-> 1, relevant_member_ids |-> <<4>>,
           question_type |-> "free_form",
           targeting_criteria |-> {"pattern_id"}])

\* A targeting_context is kept as the set of its keys (None: no keys).
BatchContext ==
    {"relevance_score", "selection_method", "breakdown", "batch_processed"}
ContextInputs == { {}, BatchContext }

\* Days between the member's last_drop_earned_at and the day of the call.
DayGaps == {0, 1, 2}

NonTerminalStatuses == {"pending", "delivered", "viewed"}
TerminalStatuses == {"answered", "skipped", "expired"}
AllStatuses == NonTerminalStatuses \cup TerminalStatuses

\* The rows a select on (question, member, channel, status in ...) returns.
MatchingIds(D, q, m, ch, statuses) ==
    { i \in 1..Len(D) : /\ D[i].question_id = q
                        /\ D[i].member_id = m
                        /\ D[i].channel = ch
                        /\ D[i].delivery_status \in statuses }

\* get_or_create_delivery's lookup.
ActiveDeliveryIds(D, q, m) ==
    MatchingIds(D, q, m, "mobile_swipe", {"pending", "delivered", "viewed"})

\* Mutant: a pending record can be answered too.
RespondableStatuses_WithPending == {"pending", "delivered", "viewed"}

\* respond_to_question's lookup.
RespondableStatuses == {"delivered", "viewed"}

RespondableIds(D, q, m) ==
    MatchingIds(D, q, m, "mobile_swipe", RespondableStatuses)

\* assign_question_to_member's lookup: any record of the triple.
AssignedIds(D, q, m, ch) == MatchingIds(D, q, m, ch, AllStatuses)

\* get_answered_question_ids: answered, skipped or expired on any channel.
AnsweredQuestionIds(D, m) ==
    { D[i].question_id : i \in { j \in 1..Len(D) :
                                   /\ D[j].member_id = m
                                   /\ D[j].delivery_status \in
                                        {"answered", "skipped", "expired"} } }

\* array_position(relevant_member_ids, member_id), 0 for NULL.
ArrayPosition(seq, m) ==
    IF \E i \in 1..Len(seq) : seq[i] = m
    THEN CHOOSE i \in 1..Len(seq) :
            seq[i] = m /\ \A j \in 1..(i - 1) : seq[j] # m
    ELSE 0

\* ORDER BY array_position(...) NULLS LAST, difficulty_level, order_index.
OrderedBefore(q1, q2, m) ==
    LET p1 == ArrayPosition(Questions[q1].relevant_member_ids, m)
        p2 == ArrayPosition(Questions[q2].relevant_member_ids, m)
        d1 == Questions[q1].difficulty_level
        d2 == Questions[q2].difficulty_level
    IN IF p1 # p2
       THEN p1 # 0 /\ (p2 = 0 \/ p1 < p2)
       ELSE IF d1 # d2 THEN d1 < d2
       ELSE Questions[q1].order_index < Questions[q2].order_index

\* The rows the "next unanswered question" query may return with LIMIT 1.
NextQuestionChoices(D, m) ==
    LET open == { q \in QuestionIds : /\ Questions[q].is_active
                                      /\ Questions[q].deck_active
                                      /\ q \notin AnsweredQuestionIds(D, m) }
    IN { q \in open : \A r \in open : ~OrderedBefore(r, q, m) }

NewDelivery(q, m, ch, ctx, by) ==
    [question_id |-> q, member_id |-> m, channel |-> ch,
     delivery_status |-> "pending", delivered_at |-> FALSE,
     viewed_at |-> FALSE, answered_at |-> FALSE, response_type |-> "",
     targeting_context |-> ctx, created_by |-> by]

\* What each endpoint assigns to the delivery it got or created.
MarkViewed(r) ==
    [r EXCEPT !.delivery_status = "viewed", !.delivered_at = TRUE,
              !.viewed_at = TRUE]

MarkAnswered(r, q) ==
    [r EXCEPT !.delivery_status = "answered", !.answered_at = TRUE,
              !.response_type = Questions[q].question_type]

\* Mutant: the skip is recorded without its timestamp.
MarkSkipped_NoStamp(r) ==
    [r EXCEPT !.delivery_status = "skipped", !.response_type = "skip"]

MarkSkipped(r) ==
    [r EXCEPT !.delivery_status = "skipped", !.answered_at = TRUE,
              !.response_type = "skip"]

\* Mutant: saving for later puts the record back to pending.
MarkSaved_BackToPending(r) ==
    [r EXCEPT !.delivery_status = "pending",
              !.response_type = "saved_for_later"]

MarkSaved(r) == [r EXCEPT !.response_type = "saved_for_later"]

MarkNotMyVibe(r) ==
    [r EXCEPT !.delivery_status = "skipped", !.answered_at = TRUE,
              !.response_type = "not_my_vibe",
              !.targeting_context = @ \cup {"negative_signal", "signal_reason"}]

Written(op, r, q) ==
    CASE op = "next" -> MarkViewed(r)
      [] op = "respond" -> MarkAnswered(r, q)
      [] op = "skip" -> MarkSkipped(r)
      [] op = "save" -> MarkSaved(r)
      [] op = "not_my_vibe" -> MarkNotMyVibe(r)
      [] OTHER -> r

\* The targeting_context a newly created record gets.
CreatedContext(op, q, ctx) ==
    CASE op = "next" -> Questions[q].targeting_criteria
      [] op = "assign" -> ctx
      [] OTHER -> {}

\* The table after the commit: the row the lookup returned (id 0: a new row)
\* with the endpoint's assignments.
DeliveriesAfter(D, op, id, q, m, ch, ctx) ==
    IF id # 0
    THEN [D EXCEPT ![id] = Written(op, D[id], q)]
    ELSE Append(D, Written(op, NewDelivery(q, m, ch, CreatedContext(op, q, ctx),
                                           IF op = "assign" THEN "assign"
                                           ELSE "mobile"), q))

\* Cafe drops for an answer: base, difficulty bonus, streak bonus.
BaseDrops(q) ==
    5 + (IF Questions[q].difficulty_level = 2 THEN 3
         ELSE IF Questions[q].difficulty_level = 3 THEN 7 ELSE 0)

Min2(x, y) == IF x < y THEN x ELSE y

StreakAfter(mem, gap) ==
    IF mem.has_last_drop
    THEN IF gap = 0 THEN mem.streak_days
         ELSE IF gap = 1 THEN mem.streak_days + 1
         ELSE 1
    ELSE 1

DropsEarned(mem, q, gap) ==
    BaseDrops(q) + (IF mem.has_last_drop /\ gap = 1
                    THEN Min2(mem.streak_days + 1, 10) ELSE 0)

MemberAfterAnswer(mem, q, gap) ==
    [cafe_drops |-> mem.cafe_drops + DropsEarned(mem, q, gap),
     drops_earned_today |-> mem.drops_earned_today + DropsEarned(mem, q, gap),
     streak_days |-> StreakAfter(mem, gap),
     has_last_drop |-> TRUE]

\* The read half of each request: its outcome ("ok" when it goes on to
\* write) and the delivery row it will write to (0: a row to create).
Found(ids) == IF ids = {} THEN 0 ELSE CHOOSE i \in ids : TRUE

\* Mutant: assign_question_to_member does not look the member up.
LookupOutcome_NoMemberCheck(D, op, q, m, ch) ==
    CASE op = "assign" ->
           IF q \notin QuestionIds THEN "error_question_not_found"
           ELSE IF Cardinality(AssignedIds(D, q, m, ch)) > 1
                THEN "raised_multiple_results"
           ELSE IF AssignedIds(D, q, m, ch) # {} THEN "error_already_exists"
           ELSE "ok"
      [] op = "respond" ->
           IF Cardinality(RespondableIds(D, q, m)) > 1
                THEN "raised_multiple_results"
           ELSE IF RespondableIds(D, q, m) = {} THEN "error_no_active_delivery"
           ELSE IF q \notin QuestionIds THEN "error_question_not_found"
           ELSE "ok"
      [] OTHER ->
           IF Cardinality(ActiveDeliveryIds(D, q, m)) > 1
                THEN "raised_multiple_results"
           ELSE IF /\ ActiveDeliveryIds(D, q, m) = {}
                   /\ (q \notin QuestionIds \/ m \notin DMemberIds)
                THEN "raised_integrity_error"
           ELSE "ok"

LookupOutcome(D, op, q, m, ch) ==
    CASE op = "assign" ->
           IF q \notin QuestionIds THEN "error_question_not_found"
           ELSE IF m \notin DMemberIds THEN "error_member_not_found"
           ELSE IF Cardinality(AssignedIds(D, q, m, ch)) > 1
                THEN "raised_multiple_results"
           ELSE IF AssignedIds(D, q, m, ch) # {} THEN "error_already_exists"
           ELSE "ok"
      [] op = "respond" ->
           IF Cardinality(RespondableIds(D, q, m)) > 1
                THEN "raised_multiple_results"
           ELSE IF RespondableIds(D, q, m) = {} THEN "error_no_active_delivery"
           ELSE IF q \notin QuestionIds THEN "error_question_not_found"
           ELSE "ok"
      [] OTHER ->
           IF Cardinality(ActiveDeliveryIds(D, q, m)) > 1
                THEN "raised_multiple_results"
           ELSE IF /\ ActiveDeliveryIds(D, q, m) = {}
                   /\ (q \notin QuestionIds \/ m \notin DMemberIds)
                THEN "raised_integrity_error"
           ELSE "ok"

LookupId(D, op, q, m, ch) ==
    CASE op = "assign" -> 0
      [] op = "respond" -> Found(RespondableIds(D, q, m))
      [] OTHER -> Found(ActiveDeliveryIds(D, q, m))

DCall(op, q, m, ch, outcome, id) ==
    [op |-> op, q |-> q, m |-> m, ch |-> ch, outcome |-> outcome, id |-> id]

NoDCall == DCall("none", 0, 0, "", "", 0)

IdleRequest == [pc |-> "idle", op |-> "", q |-> 0, m |-> 0, ch |-> "",
                ctx |-> {}, id |-> 0, seenStatus |-> ""]

DeliveriesIdle == \A w \in Workers : dw[w].pc = "idle"

\* One whole request, from its lookups to its commit, with no other request
\* in flight.  The day gap matters to respond_to_question only.
Request(op, q, m, ch, ctx, gap) ==
    /\ dOps < MaxDeliveryOps
    /\ DeliveriesIdle
    /\ dOps' = dOps + 1
    /\ UNCHANGED dw
    /\ LET outcome == LookupOutcome(deliveries, op, q, m, ch)
           id == LookupId(deliveries, op, q, m, ch)
       IN IF outcome # "ok"
          THEN /\ dLast' = DCall(op, q, m, ch, outcome, 0)
               /\ UNCHANGED <<deliveries, members>>
          ELSE /\ deliveries' = DeliveriesAfter(deliveries, op, id, q, m, ch, ctx)
               /\ members' = IF op = "respond"
                             THEN [members EXCEPT
                                     ![m] = MemberAfterAnswer(@, q, gap)]
                             ELSE members
               /\ dLast' = DCall(op, q, m, ch, "ok",
                                 IF id = 0 THEN Len(deliveries) + 1 ELSE id)

GetNextQuestion(m) ==
    IF m \notin DMemberIds
    THEN /\ dOps < MaxDeliveryOps
         /\ DeliveriesIdle
         /\ dOps' = dOps + 1
         /\ dLast' = DCall("next", 0, m, "mobile_swipe",
                           "error_member_not_found", 0)
         /\ UNCHANGED <<deliveries, members, dw>>
    ELSE IF NextQuestionChoices(deliveries, m) = {}
    THEN /\ dOps < MaxDeliveryOps
         /\ DeliveriesIdle
         /\ dOps' = dOps + 1
         /\ dLast' = DCall("next", 0, m, "mobile_swipe", "none", 0)
         /\ UNCHANGED <<deliveries, members, dw>>
    ELSE \E q \in NextQuestionChoices(deliveries, m) :
            Request("next", q, m, "mobile_swipe", {}, 0)

RespondToQuestion(q, m) ==
    \E gap \in DayGaps : Request("respond", q, m, "mobile_swipe", {}, gap)

SkipQuestion(q, m) == Request("skip", q, m, "mobile_swipe", {}, 0)

SaveQuestionForLater(q, m) == Request("save", q, m, "mobile_swipe", {}, 0)

MarkNotMyVibeCall(q, m) == Request("not_my_vibe", q, m, "mobile_swipe", {}, 0)

AssignQuestionToMember(q, m, ch, ctx) == Request("assign", q, m, ch, ctx, 0)

DeliveryInit ==
    /\ deliveries = << >>
    /\ members = [m \in DMemberIds |->
                    [cafe_drops |-> 0, drops_earned_today |-> 0,
                     streak_days |-> 0, has_last_drop |-> FALSE]]
    /\ dw = [w \in Workers |-> IdleRequest]
    /\ dLast = NoDCall
    /\ dOps = 0

GetNextQuestionCall ==
    \E m \in DMemberIdInputs : GetNextQuestion(m) /\ UNCHANGED <<edgeVars, targetingVars, queueVars, tasteVars>>

RespondToQuestionCall ==
    \E q \in QuestionIdInputs, m \in DMemberIdInputs :
        RespondToQuestion(q, m) /\ UNCHANGED <<edgeVars, targetingVars, queueVars, tasteVars>>

SkipQuestionCall ==
    \E q \in QuestionIdInputs, m \in DMemberIdInputs :
        SkipQuestion(q, m) /\ UNCHANGED <<edgeVars, targetingVars, queueVars, tasteVars>>

SaveQuestionForLaterCall ==
    \E q \in QuestionIdInputs, m \in DMemberIdInputs :
        SaveQuestionForLater(q, m) /\ UNCHANGED <<edgeVars, targetingVars, queueVars, tasteVars>>

MarkNotMyVibeCallAny ==
    \E q \in QuestionIdInputs, m \in DMemberIdInputs :
        MarkNotMyVibeCall(q, m) /\ UNCHANGED <<edgeVars, targetingVars, queueVars, tasteVars>>

AssignQuestionToMemberCall ==
    \E q \in QuestionIdInputs, m \in DMemberIdInputs,
       ch \in DeliveryChannel, ctx \in ContextInputs :
        AssignQuestionToMember(q, m, ch, ctx) /\ UNCHANGED <<edgeVars, targetingVars, queueVars, tasteVars>>

DeliverySeqNext ==
    \/ GetNextQuestionCall
    \/ RespondToQuestionCall
    \/ SkipQuestionCall
    \/ SaveQuestionForLaterCall
    \/ MarkNotMyVibeCallAny
    \/ AssignQuestionToMemberCall

(***************************************************************************)
(* QuestionTargetingAgent._score_question_for_member,                      *)
(* app/agents/question_targeting.py.                                       *)
(***************************************************************************)
AllChannels ==
    {"mobile_swipe", "clubhouse_display", "email", "sms", "web_chat"}

\* vibe_mapping of the taste component.
VibeMapping ==
    [v \in {"warm", "playful", "deep", "edgy", "connector"} |->
        CASE v = "warm" -> {"cozy", "warm", "friendly", "welcoming"}
          [] v = "playful" -> {"fun", "playful", "quirky", "weird"}
          [] v = "deep" -> {"thoughtful", "introspective", "meaningful", "deep"}
          [] v = "edgy" -> {"provocative", "challenging", "edgy", "bold"}
          [] v = "connector" -> {"social", "community", "connecting", "networking"}]

\* A question dict as get_question_pool builds it: vibe "" and
\* connected_member_id 0 stand for None.
ScoredQuestion(pids, rel, conn, vibe, cat, diff, qtype) ==
    [pattern_ids |-> pids, relevant_member_ids |-> rel,
     connected_member_id |-> conn, vibe |-> vibe, category |-> cat,
     difficulty_level |-> diff, question_type |-> qtype]

\* The taste_profile entry of get_member_context (present FALSE: None).
NoTaste ==
    [present |-> FALSE, vibe_words |-> {}, avoid_words |-> {},
     this_week_energy |-> ""]
Taste(vw, aw, energy) ==
    [present |-> TRUE, vibe_words |-> vw, avoid_words |-> aw,
     this_week_energy |-> energy]

\* The member context: hours_since_last is -1 when last_question_at is None.
MemberContext(m, pats, taste, hours) ==
    [member_id |-> m, patterns |-> pats, taste_profile |-> taste,
     hours_since_last |-> hours]

\* Mutant: a member listed as relevant scores 35 for pattern relevance.
PatternRelevance_Uncapped(q, mc) ==
    IF mc.patterns \cap q.pattern_ids # {} THEN 30
    ELSE IF mc.member_id \in q.relevant_member_ids THEN 35
    ELSE IF mc.patterns # {} THEN 10
    ELSE 0

\* Pattern relevance (0-30).
PatternRelevance(q, mc) ==
    IF mc.patterns \cap q.pattern_ids # {} THEN 30
    ELSE IF mc.member_id \in q.relevant_member_ids THEN 25
    ELSE IF mc.patterns # {} THEN 10
    ELSE 0

\* Mutant: any member with a connection gets the 5 points.
EdgeContextScore_AnyConnection(q, connected) ==
    IF q.relevant_member_ids \cap connected # {} THEN 25
    ELSE IF q.connected_member_id \in connected THEN 20
    ELSE IF connected # {} THEN 5
    ELSE 0

\* Edge context (0-25); connected is the set of connected member ids.
EdgeContextScore(q, connected) ==
    IF q.relevant_member_ids \cap connected # {} THEN 25
    ELSE IF q.connected_member_id \in connected THEN 20
    ELSE IF connected # {} /\ q.relevant_member_ids # {} THEN 5
    ELSE 0

\* Taste profile match (0-25).
TasteMatch(q, taste) ==
    IF taste.present /\ q.vibe # ""
    THEN LET matching == VibeMapping[q.vibe]
             base == IF matching \cap taste.vibe_words # {} THEN 25
                     ELSE IF matching \cap taste.avoid_words # {} THEN 0
                     ELSE 12
         IN IF taste.this_week_energy = "low" /\ q.vibe = "deep"
            THEN Max2(0, base - 10)
            ELSE IF taste.this_week_energy = "high" /\ q.vibe = "playful"
            THEN Min2(25, base + 5)
            ELSE base
    ELSE 12

\* category_dist.get(question_category, 0)
CategoryCount(dist, cat) == IF cat \in DOMAIN dist THEN dist[cat] ELSE 0

\* Freshness (0-10): category saturation, then the 24 hour recency penalty.
Freshness(q, dist, hours) ==
    LET c == CategoryCount(dist, q.category)
        base == IF q.category # "" /\ DOMAIN dist # {}
                THEN IF c >= 5 THEN 2 ELSE IF c >= 3 THEN 5 ELSE 10
                ELSE 10
    IN IF hours >= 0 /\ hours < 24 THEN Max2(0, base - 5) ELSE base

\* Channel fit (0-10).
ChannelFit(q, ch) ==
    LET d == q.difficulty_level
        t == q.question_type
    IN CASE ch = "mobile_swipe" ->
              IF d = 1 /\ t \in {"yes_no", "multiple_choice"} THEN 10
              ELSE IF d <= 2 THEN 7 ELSE 3
         [] ch = "clubhouse_display" ->
              IF q.vibe \in {"connector", "playful"} THEN 10
              ELSE IF d <= 2 THEN 7 ELSE 5
         [] ch = "email" ->
              IF d >= 2 /\ t = "free_form" THEN 10
              ELSE IF d >= 2 THEN 7 ELSE 5
         [] ch = "web_chat" -> 7
         [] OTHER -> 5

ScoreBreakdown(q, mc, connected, dist, ch) ==
    [pattern_relevance |-> PatternRelevance(q, mc),
     edge_context |-> EdgeContextScore(q, connected),
     taste_match |-> TasteMatch(q, mc.taste_profile),
     freshness |-> Freshness(q, dist, mc.hours_since_last),
     channel_fit |-> ChannelFit(q, ch)]

\* "score += ..." after each component.
ScoreQuestionForMember(q, mc, connected, dist, ch) ==
    LET b == ScoreBreakdown(q, mc, connected, dist, ch)
    IN [total_score |-> b.pattern_relevance + b.edge_context + b.taste_match
                        + b.freshness + b.channel_fit,
        breakdown |-> b, max_possible |-> 100]

\* The inputs one scoring call is drawn from.
ScoreQuestionInputs ==
    { ScoredQuestion(pids, rel, conn, vibe, "origin_story", dt[1], dt[2]) :
        pids \in {{}, {1}}, rel \in {{}, {3}, {5}}, conn \in {0, 5},
        vibe \in {"", "deep", "playful"},
        dt \in {<<1, "yes_no">>, <<1, "free_form">>, <<2, "free_form">>,
                <<3, "yes_no">>} }
TasteInputs ==
    { NoTaste,
      Taste({"thoughtful", "fun"}, {}, "low"),
      Taste({"thoughtful", "fun"}, {}, "high"),
      Taste({"cozy"}, {"deep", "quirky"}, "low"),
      Taste({"cozy"}, {"deep", "quirky"}, "high") }
MemberContextInputs ==
    { MemberContext(3, pats, taste, hours) :
        pats \in {{}, {1}}, taste \in TasteInputs, hours \in {-1, 2, 30} }
ConnectedInputs == {{}, {5}}
EmptyDistribution == [c \in {} |-> 0]
DistributionInputs ==
    { EmptyDistribution, "origin_story" :> 3, "origin_story" :> 5,
      "collaboration" :> 5 }

NoScore == [kind |-> "none"]

\* One call of _score_question_for_member.
ScoreCall ==
    /\ sc.kind = "none"
    /\ \E q \in ScoreQuestionInputs, mc \in MemberContextInputs,
          connected \in ConnectedInputs, dist \in DistributionInputs,
          ch \in AllChannels :
         sc' = [kind |-> "score", question |-> q, member_context |-> mc,
                connected |-> connected, distribution |-> dist,
                channel |-> ch,
                result |-> ScoreQuestionForMember(q, mc, connected, dist, ch)]
    /\ UNCHANGED <<bt, edgeVars, deliveryVars, queueVars, tasteVars>>

(***************************************************************************)
(* QuestionTargetingAgent.batch_target_questions,                          *)
(* app/agents/question_targeting.py, with get_question_pool,               *)
(* get_member_context and assign_question_to_member of                     *)
(* app/tools/targeting_tools.py.                                           *)
(***************************************************************************)
\* Active questions outside every deck shown on mobile: get_question_pool
\* selects them, get_next_question does not.
ExtraQuestionIds == {9, 10, 11, 12}
AllQuestionIds == QuestionIds \cup ExtraQuestionIds

SeqToSet(seq) == { seq[i] : i \in 1..Len(seq) }

\* The rows of the questions table as get_question_pool returns them.
PoolQuestions ==
    (7 :> ScoredQuestion({}, SeqToSet(Questions[7].relevant_member_ids), 0,
                         "playful", "origin_story",
                         Questions[7].difficulty_level,
                         Questions[7].question_type))
    @@
    (8 :> ScoredQuestion({}, SeqToSet(Questions[8].relevant_member_ids), 0,
                         "deep", "collaboration",
                         Questions[8].difficulty_level,
                         Questions[8].question_type))
    @@
    (9 :> ScoredQuestion({}, {4}, 0, "warm", "origin_story", 1, "yes_no"))
    @@
    (10 :> ScoredQuestion({}, {3}, 0, "playful", "origin_story", 1, "yes_no"))
    @@
    (11 :> ScoredQuestion({}, {}, 0, "warm", "collaboration", 1,
                          "multiple_choice"))
    @@
    (12 :> ScoredQuestion({}, {4}, 0, "deep", "collaboration", 3, "free_form"))

\* Rows of taste_profiles, patterns and member_edges for the two members.
MemberTaste == (3 :> NoTaste) @@ (4 :> Taste({"fun", "cozy"}, {"thoughtful"}, ""))
MemberPatterns == (3 :> {}) @@ (4 :> {})
BatchConnected == (3 :> {}) @@ (4 :> {})

\* Rows of question_responses a member may have (read, never written, here).
ResponseInputs == { {}, {10}, AllQuestionIds }

\* random.random() in hundredths, and the caller's min_score.
RollInputs == {69, 70, 89, 90}
MinScoreInputs == {30, 40}

\* Deliveries 1..k were created more than 24 hours before the sweep.
RecentIds(D, k) == { i \in 1..Len(D) : i > k }

\* recent_member_ids: members with a delivery on the channel in 24 hours.
RecentMemberIds(D, k, ch) ==
    { D[i].member_id : i \in { j \in RecentIds(D, k) : D[j].channel = ch } }

RECURSIVE SeqAscending(_)
SeqAscending(S) ==
    IF S = {} THEN << >>
    ELSE LET x == CHOOSE x \in S : \A y \in S : x <= y
         IN <<x>> \o SeqAscending(S \ {x})

RECURSIVE SeqDescending(_)
SeqDescending(S) ==
    IF S = {} THEN << >>
    ELSE LET x == CHOOSE x \in S : \A y \in S : y <= x
         IN <<x>> \o SeqDescending(S \ {x})

EligibleMembers(D, k, ch) ==
    SeqAscending(DMemberIds \ RecentMemberIds(D, k, ch))

\* get_question_pool: active questions minus those delivered, viewed or
\* answered (any channel) or answered in question_responses, newest first.
PoolExcluded(D, m, resp) ==
    resp \cup { D[i].question_id :
                  i \in { j \in 1..Len(D) :
                            /\ D[j].member_id = m
                            /\ D[j].delivery_status \in
                                 {"delivered", "viewed", "answered"} } }

QuestionPool(D, m, resp) ==
    SeqDescending(AllQuestionIds \ PoolExcluded(D, m, resp))

\* get_member_context: hours since the member's latest delivery.
HoursSinceLast(D, k, m) ==
    LET mine == { i \in 1..Len(D) : D[i].member_id = m }
    IN IF mine = {} THEN -1
       ELSE IF \E i \in mine : i > k THEN 2 ELSE 30

BatchMemberContext(D, k, m) ==
    MemberContext(m, MemberPatterns[m], MemberTaste[m], HoursSinceLast(D, k, m))

\* get_answered_questions: category counts over answered questions.
AnsweredIds(D, m, resp) ==
    resp \cup { D[i].question_id :
                  i \in { j \in 1..Len(D) :
                            /\ D[j].member_id = m
                            /\ D[j].delivery_status = "answered" } }

CategoryDistribution(D, m, resp) ==
    LET cats == { PoolQuestions[q].category : q \in AnsweredIds(D, m, resp) }
    IN [c \in cats |->
          Cardinality({ q \in AnsweredIds(D, m, resp) :
                          PoolQuestions[q].category = c })]

\* scored_questions before the sort, in pool order.
ScoredQuestions(pool, mc, connected, dist, ch) ==
    [i \in 1..Len(pool) |->
       LET r == ScoreQuestionForMember(PoolQuestions[pool[i]], mc, connected,
                                       dist, ch)
       IN [question |-> pool[i], score |-> r.total_score,
           breakdown |-> r.breakdown]]

\* list.sort(key=score, reverse=True): stable, ties keep their order.
SortRank(seq, i) ==
    1 + Cardinality({ j \in 1..Len(seq) :
                        \/ seq[j].score > seq[i].score
                        \/ (seq[j].score = seq[i].score /\ j < i) })

SortByScore(seq) ==
    [r \in 1..Len(seq) |-> seq[CHOOSE i \in 1..Len(seq) : SortRank(seq, i) = r]]

Selection(sel, method) == [sel |-> sel, method |-> method]

\* Mutant: the 20% branch looks at every candidate, not the first five.
TopCandidates_All(sq) == 1..Len(sq)

\* scored_questions[:5]
TopCandidates(sq) == 1..Min2(5, Len(sq))

\* top_5: the first five with a pattern or edge component above zero.
TopFiveRelated(sq) ==
    { i \in TopCandidates(sq) : \/ sq[i].breakdown.pattern_relevance > 0
                                \/ sq[i].breakdown.edge_context > 0 }

\* Mutant: the first branch is taken below 0.80.
SelectionChoices_WideTop(sq, roll, min_score) ==
    IF roll < 80
    THEN IF Len(sq) > 0 /\ sq[1].score >= min_score
         THEN {Selection(1, "highest_score")}
         ELSE {Selection(0, "highest_score")}
    ELSE IF roll < 90
    THEN IF TopFiveRelated(sq) # {}
         THEN { Selection(i, "top_5_random") : i \in TopFiveRelated(sq) }
         ELSE IF Len(sq) > 0 /\ sq[1].score >= min_score
         THEN {Selection(1, "highest_score_fallback")}
         ELSE {Selection(0, "highest_score")}
    ELSE IF Len(sq) > 0
         THEN { Selection(i, "wildcard") : i \in 1..Len(sq) }
         ELSE {Selection(0, "highest_score")}

\* The selection branches: the positions in the sorted list the roll may
\* select (0: selected stays None) with the method tag left behind.
SelectionChoices(sq, roll, min_score) ==
    IF roll < 70
    THEN IF Len(sq) > 0 /\ sq[1].score >= min_score
         THEN {Selection(1, "highest_score")}
         ELSE {Selection(0, "highest_score")}
    ELSE IF roll < 90
    THEN IF TopFiveRelated(sq) # {}
         THEN { Selection(i, "top_5_random") : i \in TopFiveRelated(sq) }
         ELSE IF Len(sq) > 0 /\ sq[1].score >= min_score
         THEN {Selection(1, "highest_score_fallback")}
         ELSE {Selection(0, "highest_score")}
    ELSE IF Len(sq) > 0
         THEN { Selection(i, "wildcard") : i \in 1..Len(sq) }
         ELSE {Selection(0, "highest_score")}

\* "if selected and selected['score'] >= min_score"
PassesThreshold(sq, choice, min_score) ==
    choice.sel # 0 /\ sq[choice.sel].score >= min_score

\* assign_question_to_member as the sweep calls it: the question and the
\* member exist, so only the lookup of an earlier record can stop it.
BatchAssignOutcome(D, q, m, ch) ==
    IF Cardinality(AssignedIds(D, q, m, ch)) > 1 THEN "raised_multiple_results"
    ELSE IF AssignedIds(D, q, m, ch) # {} THEN "error_already_exists"
    ELSE "ok"

NoIteration ==
    [member_id |-> 0, scored |-> << >>, roll |-> 0, min_score |-> 0,
     choice |-> Selection(0, ""), outcome |-> "", reason |-> ""]

Iteration(m, sq, roll, min_score, choice, outcome, reason) ==
    [member_id |-> m, scored |-> sq, roll |-> roll, min_score |-> min_score,
     choice |-> choice, outcome |-> outcome, reason |-> reason]

IdleBatch ==
    [pc |-> "idle", channel |-> "", min_score |-> 0, cutoff |-> 0,
     eligible |-> << >>, idx |-> 1, total_assigned |-> 0,
     assignments |-> << >>, skipped |-> << >>, last |-> NoIteration]

\* The head of batch_target_questions, up to the results dict.
BatchStart(ch, min_score, k) ==
    /\ bt.pc = "idle"
    /\ DeliveriesIdle
    /\ bt' = [IdleBatch EXCEPT !.pc = "running", !.channel = ch,
                               !.min_score = min_score, !.cutoff = k,
                               !.eligible = EligibleMembers(deliveries, k, ch)]
    /\ UNCHANGED <<sc, edgeVars, deliveryVars, queueVars, tasteVars>>

Skipped(m, reason) == [member_id |-> m, reason |-> reason]

\* Mutant: an exception in one member's iteration ends the sweep.
AfterException_Abort(b, it) ==
    [b EXCEPT !.pc = "aborted", !.last = it]

\* "except Exception as e": the member is recorded as skipped.
AfterException(b, it) ==
    [b EXCEPT !.idx = @ + 1, !.last = it,
              !.skipped = Append(@, Skipped(it.member_id, it.reason))]

AfterSkip(b, it) ==
    [b EXCEPT !.idx = @ + 1, !.last = it,
              !.skipped = Append(@, Skipped(it.member_id, it.reason))]

\* Mutant: an assigned member is listed as skipped as well.
AfterAssign_AlsoSkipped(b, it) ==
    [b EXCEPT !.idx = @ + 1, !.last = it,
              !.total_assigned = @ + 1,
              !.skipped = Append(@, Skipped(it.member_id, "assigned")),
              !.assignments =
                  Append(@, [member_id |-> it.member_id,
                             question_id |-> it.scored[it.choice.sel].question,
                             score |-> it.scored[it.choice.sel].score,
                             method |-> it.choice.method])]

AfterAssign(b, it) ==
    [b EXCEPT !.idx = @ + 1, !.last = it,
              !.total_assigned = @ + 1,
              !.assignments =
                  Append(@, [member_id |-> it.member_id,
                             question_id |-> it.scored[it.choice.sel].question,
                             score |-> it.scored[it.choice.sel].score,
                             method |-> it.choice.method])]

\* The rest of one pass, from the sorted candidates to the results entry.
BatchSelect(m, sq, roll, choice) ==
    IF Len(sq) = 0
    THEN /\ bt' = AfterSkip(bt, Iteration(m, sq, 0, bt.min_score, choice,
                                          "skipped", "no_available_questions"))
         /\ UNCHANGED deliveries
    ELSE IF ~PassesThreshold(sq, choice, bt.min_score)
    THEN /\ bt' = AfterSkip(bt, Iteration(m, sq, roll, bt.min_score, choice,
                                          "skipped", "no_question_met_threshold"))
         /\ UNCHANGED deliveries
    ELSE LET q == sq[choice.sel].question
             res == BatchAssignOutcome(deliveries, q, m, bt.channel)
         IN IF res = "raised_multiple_results"
            THEN /\ bt' = AfterException(bt, Iteration(m, sq, roll, bt.min_score,
                                                       choice, "raised", res))
                 /\ UNCHANGED deliveries
            ELSE IF res # "ok"
            THEN /\ bt' = AfterSkip(bt, Iteration(m, sq, roll, bt.min_score,
                                                  choice, "skipped", res))
                 /\ UNCHANGED deliveries
            ELSE /\ bt' = AfterAssign(bt, Iteration(m, sq, roll, bt.min_score,
                                                    choice, "assigned", ""))
                 /\ deliveries' =
                      Append(deliveries,
                             NewDelivery(q, m, bt.channel, BatchContext, "assign"))

\* One pass of "for member in eligible_members": resp is the member's rows
\* of question_responses, roll the value of random.random().
BatchMember(resp, roll) ==
    /\ bt.pc = "running"
    /\ bt.idx <= Len(bt.eligible)
    /\ \E m \in {bt.eligible[bt.idx]} :
       \E pool \in {QuestionPool(deliveries, m, resp)} :
       \E mc \in {BatchMemberContext(deliveries, bt.cutoff, m)} :
       \E dist \in {CategoryDistribution(deliveries, m, resp)} :
       \E raw \in {ScoredQuestions(pool, mc, BatchConnected[m], dist,
                                    bt.channel)} :
       \E sq \in {SortByScore(raw)} :
          IF Len(sq) = 0
          THEN roll = 69 /\ BatchSelect(m, sq, roll, Selection(0, ""))
          ELSE \E choice \in SelectionChoices(sq, roll, bt.min_score) :
                  BatchSelect(m, sq, roll, choice)
    /\ UNCHANGED <<sc, members, dw, dLast, dOps, edgeVars, queueVars, tasteVars>>

\* The loop has ended: the results dict is returned.
BatchReturn ==
    /\ bt.pc = "running"
    /\ bt.idx > Len(bt.eligible)
    /\ bt' = [bt EXCEPT !.pc = "done"]
    /\ UNCHANGED <<sc, edgeVars, deliveryVars, queueVars, tasteVars>>

TargetingInit ==
    /\ sc = NoScore
    /\ bt = IdleBatch

(***************************************************************************)
(* QuestionQueueBuilder.build_queue, app/services/question_queue.py.       *)
(* Scores and affinities are kept in thousandths.                          *)
(***************************************************************************)
\* str.lower() on the skill and interest names of the fixtures.
Lower(s) ==
    CASE s = "Python" -> "python"
      [] s = "ML" -> "ml"
      [] s = "Art" -> "art"
      [] OTHER -> s

LowerAll(S) == { Lower(s) : s \in S }

\* Rows of members: member 3 lacks a bio and a third skill, member 4 has an
\* empty profile.
QueueMembers ==
    (3 :> [bio_length |-> 0, role |-> TRUE, company |-> TRUE,
           location |-> TRUE, website |-> TRUE,
           skills |-> {"Python", "ML"}, interests |-> {"Art"},
           prompt_responses |-> 1])
    @@
    (4 :> [bio_length |-> 0, role |-> FALSE, company |-> FALSE,
           location |-> FALSE, website |-> FALSE,
           skills |-> {}, interests |-> {}, prompt_responses |-> 0])

\* Rows of patterns: activity, members and evidence.
QueuePatterns ==
    (5 :> [is_active |-> TRUE, related_member_ids |-> {3},
           skills |-> {"python"}, interests |-> {}])
    @@
    (6 :> [is_active |-> TRUE, related_member_ids |-> {3, 4},
           skills |-> {}, interests |-> {}])
    @@
    (10 :> [is_active |-> TRUE, related_member_ids |-> {},
            skills |-> {"python", "Rust"}, interests |-> {"art", "music"}])
    @@
    (11 :> [is_active |-> TRUE, related_member_ids |-> {},
            skills |-> {"python", "go", "java", "sql", "c"},
            interests |-> {}])
    @@
    (12 :> [is_active |-> TRUE, related_member_ids |-> {},
            skills |-> {}, interests |-> {}])
    @@
    (13 :> [is_active |-> FALSE, related_member_ids |-> {},
            skills |-> {"python", "ml"}, interests |-> {"art"}])

\* _load_active_patterns
ActivePatternIds == { p \in DOMAIN QueuePatterns : QueuePatterns[p].is_active }

QueueQuestion(d, pids, fields) ==
    [difficulty_level |-> d, related_pattern_ids |-> pids,
     related_profile_fields |-> fields]

\* Rows of questions (all active).
QueueQuestions ==
    (1 :> QueueQuestion(1, {}, {"bio"})) @@
    (2 :> QueueQuestion(2, {10}, {})) @@
    (3 :> QueueQuestion(2, {}, {})) @@
    (4 :> QueueQuestion(3, {10, 5}, {})) @@
    (5 :> QueueQuestion(3, {10, 5}, {})) @@
    (6 :> QueueQuestion(3, {10, 5}, {})) @@
    (7 :> QueueQuestion(3, {10}, {"bio"})) @@
    (8 :> QueueQuestion(3, {10}, {"bio"})) @@
    (9 :> QueueQuestion(2, {5, 6}, {"bio"})) @@
    (10 :> QueueQuestion(2, {5, 6}, {"bio"})) @@
    (11 :> QueueQuestion(1, {10, 5}, {})) @@
    (12 :> QueueQuestion(3, {5, 6}, {"bio", "company"})) @@
    (13 :> QueueQuestion(3, {5, 6}, {"bio", "company"})) @@
    (14 :> QueueQuestion(2, {11, 13}, {"company"})) @@
    (15 :> QueueQuestion(2, {}, {"company"})) @@
    (16 :> QueueQuestion(1, {6}, {}))

QueueQuestionIds == DOMAIN QueueQuestions

\* AFFINITY_THRESHOLD = 0.3
AffinityThreshold == 300

\* len(a & b) / len(b), or 0.0 for an empty b, in thousandths.
Overlap(mine, theirs) ==
    IF theirs = {} THEN 0
    ELSE (1000 * Cardinality(mine \cap theirs)) \div Cardinality(theirs)

\* 0.6 * skill_overlap + 0.4 * interest_overlap
Affinity(mem, pat) ==
    (6 * Overlap(LowerAll(mem.skills), LowerAll(pat.skills))
     + 4 * Overlap(LowerAll(mem.interests), LowerAll(pat.interests))) \div 10

\* member_pattern_ids: the patterns the member belongs to.
MemberPatternIds(m) ==
    { p \in ActivePatternIds : m \in QueuePatterns[p].related_member_ids }

\* pattern_affinities: patterns the member is not in, with evidence, whose
\* affinity reaches the threshold.
\* Mutant: affinity is computed for the member's own patterns too.
AffinePatternIds_IncludingOwn(m) ==
    { p \in ActivePatternIds :
        /\ (QueuePatterns[p].skills # {} \/ QueuePatterns[p].interests # {})
        /\ Affinity(QueueMembers[m], QueuePatterns[p]) >= AffinityThreshold }

AffinePatternIds(m) ==
    { p \in ActivePatternIds :
        /\ m \notin QueuePatterns[p].related_member_ids
        /\ (QueuePatterns[p].skills # {} \/ QueuePatterns[p].interests # {})
        /\ Affinity(QueueMembers[m], QueuePatterns[p]) >= AffinityThreshold }

\* pattern_affinities as the dict it is: pattern id to affinity.
PatternAffinities(m) ==
    [p \in AffinePatternIds(m) |-> Affinity(QueueMembers[m], QueuePatterns[p])]

\* Mutant: an empty list is not reported as a gap.
ProfileGaps_SkipEmpty(mem) ==
    (IF mem.bio_length < 50 THEN {"bio"} ELSE {})
    \cup (IF ~mem.role THEN {"role"} ELSE {})
    \cup (IF ~mem.company THEN {"company"} ELSE {})
    \cup (IF ~mem.location THEN {"location"} ELSE {})
    \cup (IF ~mem.website THEN {"website"} ELSE {})
    \cup (IF Cardinality(mem.skills) \in 1..2 THEN {"skills"} ELSE {})
    \cup (IF mem.prompt_responses < 1 THEN {"prompt_responses"} ELSE {})

\* _detect_profile_gaps
ProfileGaps(mem) ==
    (IF mem.bio_length < 50 THEN {"bio"} ELSE {})
    \cup (IF ~mem.role THEN {"role"} ELSE {})
    \cup (IF ~mem.company THEN {"company"} ELSE {})
    \cup (IF ~mem.location THEN {"location"} ELSE {})
    \cup (IF ~mem.website THEN {"website"} ELSE {})
    \cup (IF Cardinality(mem.skills) < 3 THEN {"skills"} ELSE {})
    \cup (IF Cardinality(mem.interests) < 1 THEN {"interests"} ELSE {})
    \cup (IF mem.prompt_responses < 1 THEN {"prompt_responses"} ELSE {})

RECURSIVE SumAffinity(_, _)
SumAffinity(m, P) ==
    IF P = {} THEN 0
    ELSE LET p == CHOOSE p \in P : TRUE
         IN Affinity(QueueMembers[m], QueuePatterns[p]) + SumAffinity(m, P \ {p})

\* Mutant: a probed pattern is worth 5 x affinity.
ProbeScore_Half(m, q) ==
    5 * SumAffinity(m, q.related_pattern_ids \cap AffinePatternIds(m))

\* The score of one question: minimum, probe, deepen, gap, fallback.
ProbeScore(m, q) == 10 * SumAffinity(m, q.related_pattern_ids \cap AffinePatternIds(m))

DeepenScore(m, q) ==
    LET deepened == q.related_pattern_ids \cap MemberPatternIds(m)
    IN IF deepened = {} THEN 0
       ELSE (5000 * Cardinality(deepened))
            \div Max2(Cardinality(MemberPatternIds(m)), 1)

GapScore(m, q) ==
    LET matching == q.related_profile_fields \cap ProfileGaps(QueueMembers[m])
    IN IF matching = {} THEN 0
       ELSE (4000 * Cardinality(matching))
            \div Max2(Cardinality(q.related_profile_fields), 1)

FallbackScore(q) ==
    IF q.related_profile_fields # {} /\ q.related_pattern_ids = {}
    THEN 1000 ELSE 0

QuestionScore(m, q) ==
    100 + ProbeScore(m, q) + DeepenScore(m, q) + GapScore(m, q) + FallbackScore(q)

\* Mutant: a question to which no factor applies is tagged fallback.
PrimaryReason_DefaultFallback(m, q) ==
    IF q.related_pattern_ids \cap AffinePatternIds(m) # {} THEN "pattern_probe"
    ELSE IF q.related_pattern_ids \cap MemberPatternIds(m) # {}
    THEN "pattern_deepen"
    ELSE IF q.related_profile_fields \cap ProfileGaps(QueueMembers[m]) # {}
    THEN "profile_gap"
    ELSE "fallback"

\* "Determine primary reason": the first kind of entry found in reasons;
\* "minimum", the value the constructor was given, when reasons is empty.
PrimaryReason(m, q) ==
    IF q.related_pattern_ids \cap AffinePatternIds(m) # {} THEN "pattern_probe"
    ELSE IF q.related_pattern_ids \cap MemberPatternIds(m) # {}
    THEN "pattern_deepen"
    ELSE IF q.related_profile_fields \cap ProfileGaps(QueueMembers[m]) # {}
    THEN "profile_gap"
    ELSE IF q.related_profile_fields # {} /\ q.related_pattern_ids = {}
    THEN "fallback"
    ELSE "minimum"

QueueScored(m, id) ==
    [question_id |-> id, difficulty |-> QueueQuestions[id].difficulty_level,
     score |-> QuestionScore(m, QueueQuestions[id]),
     reason |-> PrimaryReason(m, QueueQuestions[id])]

\* The rows a select without ORDER BY returns: by id, in either direction.
RowOrders == {"ascending", "descending"}
QueueRows(S, order) ==
    IF order = "ascending" THEN SeqAscending(S) ELSE SeqDescending(S)

\* seq.sort(key=..., reverse=True) for an integer key: stable.
KeyRank(keys, i) ==
    1 + Cardinality({ j \in DOMAIN keys :
                        keys[j] > keys[i] \/ (keys[j] = keys[i] /\ j < i) })

SortByKey(seq, keys) ==
    [r \in 1..Len(seq) |-> seq[CHOOSE i \in 1..Len(seq) : KeyRank(keys, i) = r]]

\* scored[:10]
TopTen(seq) == SubSeq(seq, 1, Min2(10, Len(seq)))

\* Mutant: pick_best ranks by score alone.
PickKey_ScoreOnly(sq, preferred_difficulty, preferred_reason) == sq.score

\* pick_best's sort key (diff_match + reason_match, score) as one integer;
\* every score is below one million thousandths.
PickKey(sq, preferred_difficulty, preferred_reason) ==
    1000000 * ((IF sq.difficulty = preferred_difficulty THEN 1 ELSE 0)
               + (IF sq.reason = preferred_reason THEN 1 ELSE 0))
    + sq.score

\* pick_best sorts the pool in place; the pick is its head.
PickSorted(pool, d, reason) ==
    SortByKey(pool, [i \in 1..Len(pool) |-> PickKey(pool[i], d, reason)])

\* "for _ in range(min(n, len(remaining)))": n picks with one preference.
RECURSIVE PickBucket(_, _, _, _)
PickBucket(state, n, d, reason) ==
    IF n = 0 \/ Len(state.remaining) = 0 THEN state
    ELSE LET sorted == PickSorted(state.remaining, d, reason)
         IN PickBucket([result |-> Append(state.result, Head(sorted)),
                        remaining |-> Tail(sorted)], n - 1, d, reason)

\* Mutant: every bucket takes three.
Sequence_ThreeEach(top) ==
    LET b1 == PickBucket([result |-> << >>, remaining |-> top], 3, 1,
                         "profile_gap")
        b2 == PickBucket(b1, 3, 2, "pattern_probe")
        b3 == PickBucket(b2, 3, 3, "pattern_deepen")
    IN b3.result

\* _sequence: three easy, four medium, three deep.
Sequence(top) ==
    LET b1 == PickBucket([result |-> << >>, remaining |-> top], 3, 1,
                         "profile_gap")
        b2 == PickBucket(b1, 4, 2, "pattern_probe")
        b3 == PickBucket(b2, 3, 3, "pattern_deepen")
    IN b3.result

\* The queue of the returned dict.
QueueOf(sequenced) ==
    [i \in 1..Len(sequenced) |->
       [position |-> i, question_id |-> sequenced[i].question_id,
        difficulty |-> sequenced[i].difficulty,
        score |-> sequenced[i].score, reason |-> sequenced[i].reason]]

\* The question objects build_queue is run on: rows of app.models.Question,
\* which maps no related_pattern_ids attribute, or the questions of
\* tests/services/test_question_queue.py, which carry one.
QuestionSources == {"orm_row", "test_double"}

\* Sets of question ids the member has answered (rows of question_responses).
AnsweredInputs ==
    { A \cup B : A \in SUBSET {1, 2, 3, 11, 15, 16}, B \in { {}, {4, 5, 6, 7, 8},
                                                         4..14 } }

NoQueueCall == [kind |-> "none"]

QueueCall(m, source, answered, order, outcome, rows, scored, queue, available) ==
    [kind |-> "build_queue", member_id |-> m, source |-> source,
     answered |-> answered, order |-> order, outcome |-> outcome,
     rows |-> rows, scored |-> scored, queue |-> queue,
     total_available |-> available,
     member_pattern_ids |->
         IF m \in DOMAIN QueueMembers /\ Len(rows) > 0
         THEN MemberPatternIds(m) ELSE {},
     pattern_affinities |->
         IF m \in DOMAIN QueueMembers /\ Len(rows) > 0
         THEN PatternAffinities(m) ELSE << >>,
     profile_gaps |->
         IF m \in DOMAIN QueueMembers /\ Len(rows) > 0
         THEN ProfileGaps(QueueMembers[m]) ELSE {}]

\* One call of build_queue.
BuildQueue(m, source, answered, order) ==
    /\ qb.kind = "none"
    /\ \E rows \in {QueueRows(QueueQuestionIds \ answered, order)} :
         IF m \notin DOMAIN QueueMembers
         THEN qb' = QueueCall(m, source, answered, order, "returned_none",
                              << >>, << >>, << >>, 0)
         ELSE IF Len(rows) = 0
         THEN qb' = QueueCall(m, source, answered, order, "returned",
                              rows, << >>, << >>, 0)
         ELSE IF source = "orm_row"
         THEN qb' = QueueCall(m, source, answered, order,
                              "raised_attribute_error", rows, << >>, << >>, 0)
         ELSE \E scored \in {[i \in 1..Len(rows) |-> QueueScored(m, rows[i])]} :
              \E sorted \in {SortByKey(scored,
                                       [i \in 1..Len(scored) |-> scored[i].score])} :
                 qb' = QueueCall(m, source, answered, order, "returned", rows,
                                 scored, QueueOf(Sequence(TopTen(sorted))),
                                 Len(rows))
    /\ UNCHANGED <<edgeVars, deliveryVars, targetingVars, tasteVars>>

\* Scored questions handed to _sequence directly, as the unit tests do:
\* the six of test_sequence_prefers_difficulty_order and four more.
SequenceItem(id, d, reason, score) ==
    [question_id |-> id, difficulty |-> d, score |-> score, reason |-> reason]

SequenceItems ==
    (1 :> SequenceItem(1, 3, "pattern_deepen", 5000)) @@
    (2 :> SequenceItem(2, 1, "profile_gap", 5000)) @@
    (3 :> SequenceItem(3, 2, "pattern_probe", 5000)) @@
    (4 :> SequenceItem(4, 1, "profile_gap", 5000)) @@
    (5 :> SequenceItem(5, 2, "pattern_probe", 5000)) @@
    (6 :> SequenceItem(6, 3, "pattern_deepen", 5000)) @@
    (7 :> SequenceItem(7, 1, "minimum", 9000)) @@
    (8 :> SequenceItem(8, 3, "profile_gap", 100)) @@
    (9 :> SequenceItem(9, 2, "fallback", 7000)) @@
    (10 :> SequenceItem(10, 1, "pattern_probe", 3000))

\* One call of the static method _sequence.
SequenceCall(S, order) ==
    /\ qb.kind = "none"
    /\ \E input \in {[i \in 1..Cardinality(S) |->
                         SequenceItems[QueueRows(S, order)[i]]]} :
         qb' = [kind |-> "_sequence", input |-> input,
                result |-> Sequence(input)]
    /\ UNCHANGED <<edgeVars, deliveryVars, targetingVars, tasteVars>>

QueueInit == qb = NoQueueCall

(***************************************************************************)
(* The taste profile store (app/tools/taste_tools.py).  A profile is a     *)
(* function from column name to value: a list column holds a set of words, *)
(* an affinity column a function from name to score.                       *)
(***************************************************************************)
ListFields == {"vibe_words", "avoid_words", "dealbreakers", "not_my_thing"}
AffinityFields ==
    {"category_affinities", "venue_affinities", "organizer_affinities"}
ContextFields == {"current_mood", "this_week_energy", "visitors_in_town"}

\* TasteProfile(member_id=member_id): the column defaults.
NewTasteProfile ==
    [f \in ListFields |-> {}]
    @@ [f \in AffinityFields \cup {"price_comfort"} |-> << >>]
    @@ [f \in {"energy_time", "usual_company", "current_mood",
               "this_week_energy"} |-> "None"]
    @@ ("spontaneity" :> 50) @@ ("visitors_in_town" :> FALSE)
    @@ ("context_updated_at" :> FALSE)

\* The updates argument of the calls.
UpdateInputs ==
    { << >>,
      ("vibe_words" :> {"cozy"}),
      ("vibe_words" :> {"weird"}) @@ ("dealbreakers" :> {"cash only"}),
      ("category_affinities" :> ("Live Music" :> 80)),
      ("category_affinities" :> ("Workshops" :> -20))
          @@ ("current_mood" :> "low-key"),
      ("this_week_energy" :> "high") @@ ("visitors_in_town" :> TRUE)
          @@ ("energy_time" :> "evening"),
      ("avoid_words" :> {"loud"}) @@ ("not_my_thing" :> {"karaoke"})
          @@ ("venue_affinities" :> ("downtown" :> -50))
          @@ ("organizer_affinities" :> ("Folk Collective" :> 80))
          @@ ("price_comfort" :> ("max" :> 50))
          @@ ("usual_company" :> "solo") @@ ("spontaneity" :> 70) }

\* Mutant: a supplied list is added to the stored one.
ApplyUpdates_UnionLists(profile, updates) ==
    [f \in DOMAIN profile |->
       IF f = "context_updated_at"
       THEN (profile[f] \/ ContextFields \cap DOMAIN updates # {})
       ELSE IF f \in DOMAIN updates /\ f \in ListFields
       THEN profile[f] \cup updates[f]
       ELSE IF f \in DOMAIN updates THEN updates[f]
       ELSE profile[f]]

\* 'if "<field>" in updates: profile.<field> = updates["<field>"]' for each
\* of the fourteen columns, then the context timestamp.
ApplyUpdates(profile, updates) ==
    [f \in DOMAIN profile |->
       IF f = "context_updated_at"
       THEN (profile[f] \/ ContextFields \cap DOMAIN updates # {})
       ELSE IF f \in DOMAIN updates THEN updates[f]
       ELSE profile[f]]

NoTasteCall == [kind |-> "none"]

\* One call of update_taste_profile.
UpdateTasteProfile(m, updates) ==
    IF m \notin DMemberIds
    THEN tp' = [tp EXCEPT !.last =
                  [kind |-> "update_taste_profile", member_id |-> m,
                   updates |-> updates, outcome |-> "error_member_not_found",
                   created |-> FALSE, before |-> << >>]]
    ELSE LET was_created == m \notin DOMAIN tp.profiles
             profile == IF was_created THEN NewTasteProfile ELSE tp.profiles[m]
         IN tp' = [profiles |->
                       (m :> ApplyUpdates(profile, updates)) @@ tp.profiles,
                   last |->
                       [kind |-> "update_taste_profile", member_id |-> m,
                        updates |-> updates, outcome |-> "success",
                        created |-> was_created, before |-> profile]]

TasteInit == tp = [profiles |-> << >>, last |-> NoTasteCall]

Init == EdgeInit /\ DeliveryInit /\ TargetingInit /\ QueueInit /\ TasteInit

SpecDeliverySeq == Init /\ [][DeliverySeqNext]_vars

(***************************************************************************)
(* The same requests run by concurrent sessions.  A request yields at each *)
(* await: after its lookups and before its commit (get_next_question also  *)
(* between choosing the question and get_or_create_delivery's lookup).  A  *)
(* row flushed by one session is seen by the others once it is committed,  *)
(* and the commit's UPDATE sets the columns the session changed on the row *)
(* it read.  respond_to_question's member row is read and written in the   *)
(* commit step.  question_deliveries has no unique constraint.             *)
(***************************************************************************)
Looked(op, q, m, ch, ctx, id, seen) ==
    [pc |-> "looked", op |-> op, q |-> q, m |-> m, ch |-> ch, ctx |-> ctx,
     id |-> id, seenStatus |-> seen]

\* The lookups of a request whose question is given.
RequestLookup(w, op, q, m, ch, ctx) ==
    LET outcome == LookupOutcome(deliveries, op, q, m, ch)
        id == LookupId(deliveries, op, q, m, ch)
    IN IF outcome # "ok"
       THEN /\ dLast' = DCall(op, q, m, ch, outcome, 0)
            /\ dw' = [dw EXCEPT ![w] = IdleRequest]
       ELSE /\ dw' = [dw EXCEPT ![w] =
                        Looked(op, q, m, ch, ctx, id,
                               IF id = 0 THEN "pending"
                               ELSE deliveries[id].delivery_status)]
            /\ UNCHANGED dLast

RequestBegin(w, op, q, m, ch, ctx) ==
    /\ dOps < MaxDeliveryOps
    /\ dw[w].pc = "idle"
    /\ dOps' = dOps + 1
    /\ RequestLookup(w, op, q, m, ch, ctx)
    /\ UNCHANGED <<deliveries, members>>

\* get_next_question, lines 229-267: the member check and the question query.
NextPick(w, m) ==
    /\ dOps < MaxDeliveryOps
    /\ dw[w].pc = "idle"
    /\ dOps' = dOps + 1
    /\ UNCHANGED <<deliveries, members>>
    /\ IF m \notin DMemberIds
       THEN /\ dLast' = DCall("next", 0, m, "mobile_swipe",
                              "error_member_not_found", 0)
            /\ UNCHANGED dw
       ELSE IF NextQuestionChoices(deliveries, m) = {}
       THEN /\ dLast' = DCall("next", 0, m, "mobile_swipe", "none", 0)
            /\ UNCHANGED dw
       ELSE /\ \E q \in NextQuestionChoices(deliveries, m) :
                 dw' = [dw EXCEPT ![w] =
                          [pc |-> "picked", op |-> "next", q |-> q, m |-> m,
                           ch |-> "mobile_swipe", ctx |-> {}, id |-> 0,
                           seenStatus |-> ""]]
            /\ UNCHANGED dLast

\* get_next_question, lines 270-273: get_or_create_delivery's lookup.
NextLookup(w) ==
    /\ dw[w].pc = "picked"
    /\ RequestLookup(w, "next", dw[w].q, dw[w].m, "mobile_swipe", {})
    /\ UNCHANGED <<deliveries, members, dOps>>

\* The row an UPDATE leaves: the status column is written only when the
\* session changed it from what it read.
CommittedRow(op, cur, q, seen) ==
    IF Written(op, [cur EXCEPT !.delivery_status = seen], q).delivery_status = seen
    THEN [Written(op, cur, q) EXCEPT !.delivery_status = cur.delivery_status]
    ELSE Written(op, cur, q)

RequestCommit(w, gap) ==
    /\ dw[w].pc = "looked"
    /\ LET c == dw[w]
       IN /\ deliveries' =
                IF c.id # 0
                THEN [deliveries EXCEPT
                        ![c.id] = CommittedRow(c.op, @, c.q, c.seenStatus)]
                ELSE DeliveriesAfter(deliveries, c.op, 0, c.q, c.m, c.ch, c.ctx)
          /\ members' = IF c.op = "respond"
                        THEN [members EXCEPT
                                ![c.m] = MemberAfterAnswer(@, c.q, gap)]
                        ELSE members
          /\ dLast' = DCall(c.op, c.q, c.m, c.ch, "ok",
                            IF c.id = 0 THEN Len(deliveries) + 1 ELSE c.id)
    /\ dw' = [dw EXCEPT ![w] = IdleRequest]
    /\ UNCHANGED dOps

MobileOps == {"respond", "skip", "save", "not_my_vibe"}

MobileBegin ==
    \E w \in Workers, op \in MobileOps,
       q \in QuestionIdInputs, m \in DMemberIdInputs :
        RequestBegin(w, op, q, m, "mobile_swipe", {}) /\ UNCHANGED <<edgeVars, targetingVars, queueVars, tasteVars>>

AssignBegin ==
    \E w \in Workers, q \in QuestionIdInputs, m \in DMemberIdInputs,
       ch \in DeliveryChannel, ctx \in ContextInputs :
        RequestBegin(w, "assign", q, m, ch, ctx) /\ UNCHANGED <<edgeVars, targetingVars, queueVars, tasteVars>>

NextPickStep ==
    \E w \in Workers, m \in DMemberIdInputs :
        NextPick(w, m) /\ UNCHANGED <<edgeVars, targetingVars, queueVars, tasteVars>>

NextLookupStep == \E w \in Workers : NextLookup(w) /\ UNCHANGED <<edgeVars, targetingVars, queueVars, tasteVars>>

RequestCommitStep ==
    \E w \in Workers :
        /\ IF dw[w].op = "respond"
           THEN \E gap \in DayGaps : RequestCommit(w, gap)
           ELSE RequestCommit(w, 0)
        /\ UNCHANGED <<edgeVars, targetingVars, queueVars, tasteVars>>

DeliveryConcNext ==
    \/ MobileBegin
    \/ AssignBegin
    \/ NextPickStep
    \/ NextLookupStep
    \/ RequestCommitStep

SpecDeliveryConc == Init /\ [][DeliveryConcNext]_vars

(***************************************************************************)
(* Concurrent responses to one card: member 3 is shown a question by       *)
(* get_next_question, then respond_to_question, skip_question and          *)
(* mark_not_my_vibe requests for the member's cards run in two sessions.   *)
(***************************************************************************)
RaceShow ==
    /\ deliveries = << >>
    /\ GetNextQuestion(3)
    /\ UNCHANGED <<edgeVars, targetingVars, queueVars, tasteVars>>

RaceBegin ==
    \E w \in Workers, op \in {"respond", "skip", "not_my_vibe"},
       q \in QuestionIds :
        /\ deliveries # << >>
        /\ dOps < MaxRaceOps
        /\ dw[w].pc = "idle"
        /\ dOps' = dOps + 1
        /\ RequestLookup(w, op, q, 3, "mobile_swipe", {})
        /\ UNCHANGED <<deliveries, members>>
        /\ UNCHANGED <<edgeVars, targetingVars, queueVars, tasteVars>>

DeliveryRaceNext ==
    \/ RaceShow
    \/ RaceBegin
    \/ RequestCommitStep

SpecDeliveryRace == Init /\ [][DeliveryRaceNext]_vars

SaveEdgeCall ==
    \E a \in MemberIdInputs, b \in MemberIdInputs, t \in EdgeTypeInputs,
       s \in StrengthInputs, ev \in EvidenceInputs :
        SaveEdge(a, b, t, s, ev) /\ UNCHANGED <<deliveryVars, targetingVars, queueVars, tasteVars>>

EdgeSeqNext == SaveEdgeCall

SpecEdgeSeq == Init /\ [][EdgeSeqNext]_vars

(***************************************************************************)
(* save_edge run by concurrent sessions.  A call yields at its two awaits: *)
(* the lookup (db.execute) and the write (db.commit).  Between them the    *)
(* session keeps the row it read; the table has no unique constraint.      *)
(***************************************************************************)
\* Lines 124-167: validation and the lookup of the existing active edge.
SaveEdgeSelect(w, a, b, t, s, ev) ==
    /\ eCalls < MaxEdgeCalls
    /\ ew[w].pc = "idle"
    /\ eCalls' = eCalls + 1
    /\ UNCHANGED <<edges, eMax>>
    /\ LET v == ValidateEdge(a, b, t, s)
           na == NormalizedA(a, b)
           nb == NormalizedB(a, b)
           found == ExistingEdgeIds(edges, na, nb, t)
       IN IF v # "ok"
          THEN /\ eLast' = CallRecord(a, b, t, s, EmptyEvidence, v, 0, 0, EmptyEvidence)
               /\ UNCHANGED ew
          ELSE IF Cardinality(found) > 1
          THEN /\ eLast' = CallRecord(a, b, t, s, ev, "raised_multiple_results",
                                      0, 0, EmptyEvidence)
               /\ UNCHANGED ew
          ELSE LET id == IF found = {} THEN 0 ELSE CHOOSE i \in found : TRUE
               IN /\ ew' = [ew EXCEPT ![w] =
                              [pc |-> "selected", a |-> a, b |-> b, t |-> t,
                               s |-> s, ev |-> ev, existing |-> id,
                               seenStrength |-> IF id = 0 THEN 0
                                                ELSE edges[id].strength,
                               seenEvidence |-> IF id = 0 THEN EmptyEvidence
                                                ELSE edges[id].evidence]]
                  /\ UNCHANGED eLast

\* Lines 169-223: the update or the insert, decided on what the lookup read.
SaveEdgeCommit(w) ==
    /\ ew[w].pc = "selected"
    /\ LET c == ew[w]
           na == NormalizedA(c.a, c.b)
           nb == NormalizedB(c.a, c.b)
       IN /\ edges' = EdgesAfterSave(edges, c.existing, c.seenStrength,
                                     c.seenEvidence, na, nb, c.t, c.s, c.ev)
          /\ eMax' = MaxAfter(eMax, na, nb, c.t, c.s)
          /\ eLast' = CallRecord(c.a, c.b, c.t, c.s, c.ev,
                                 SaveStatus(c.existing, c.seenStrength, c.s),
                                 IF c.existing = 0 THEN Len(edges) + 1
                                 ELSE c.existing,
                                 c.seenStrength, c.seenEvidence)
    /\ ew' = [ew EXCEPT ![w] = IdleWorker]
    /\ UNCHANGED eCalls

SaveEdgeSelectCall ==
    \E w \in Workers, a \in MemberIdInputs, b \in MemberIdInputs,
       t \in EdgeTypeInputs, s \in StrengthInputs, ev \in EvidenceInputs :
        SaveEdgeSelect(w, a, b, t, s, ev) /\ UNCHANGED <<deliveryVars, targetingVars, queueVars, tasteVars>>

SaveEdgeCommitStep ==
    \E w \in Workers : SaveEdgeCommit(w) /\ UNCHANGED <<deliveryVars, targetingVars, queueVars, tasteVars>>

EdgeConcNext == SaveEdgeSelectCall \/ SaveEdgeCommitStep

SpecEdgeConc == Init /\ [][EdgeConcNext]_vars

(***************************************************************************)
(* Properties of the edge store.                                           *)
(***************************************************************************)
ActiveRows(k) == ExistingEdgeIds(edges, k[1], k[2], k[3])

EdgesIdle == \A w \in Workers : ew[w].pc = "idle"

\* C1: under sequential save_edge calls the stored strength of a key's
\* active edge equals the maximum strength accepted so far for that key (so
\* it never decreases, and a call at a lower or equal strength leaves it).
C1_StrengthIsMaxAccepted ==
    /\ \A k \in EdgeKeys :
          /\ eMax[k] >= 0 => ActiveRows(k) # {}
          /\ \A i \in ActiveRows(k) : edges[i].strength = eMax[k]
    /\ (eLast.status = "already_exists" /\ eLast.id \in 1..Len(edges)) =>
          /\ eLast.s <= eLast.seenStrength
          /\ edges[eLast.id].strength = eLast.seenStrength

\* C1 witness: a call at a strictly lower strength found the stronger edge.
C1_Witness ==
    /\ eLast.status = "already_exists"
    /\ eLast.s < eLast.seenStrength
    /\ edges[eLast.id].strength = 70

\* C2: with interleaved save_edge calls, once every call has finished each
\* key has exactly one active row, at the maximum of the submitted strengths.
C2_ConcurrentUpsertSerializes ==
    EdgesIdle =>
        \A k \in EdgeKeys :
            /\ Cardinality(ActiveRows(k)) <= 1
            /\ \A i \in ActiveRows(k) : edges[i].strength = eMax[k]

\* C3: every stored row has member_a_id < member_b_id, there is at most one
\* active row per unordered pair and type, and a call with the pair in
\* either order addresses the row of the canonical key.
C3_CanonicalOrder ==
    /\ \A i \in 1..Len(edges) : edges[i].member_a_id < edges[i].member_b_id
    /\ \A i, j \in 1..Len(edges) :
          ( /\ edges[i].is_active /\ edges[j].is_active
            /\ edges[i].edge_type = edges[j].edge_type
            /\ {edges[i].member_a_id, edges[i].member_b_id}
                 = {edges[j].member_a_id, edges[j].member_b_id} ) => i = j
    /\ eLast.status \in {"created", "updated", "already_exists"} =>
          /\ eLast.id \in 1..Len(edges)
          /\ {edges[eLast.id].member_a_id, edges[eLast.id].member_b_id}
               = {eLast.a, eLast.b}
          /\ edges[eLast.id].edge_type = eLast.t

\* C3 witness: a call with the pair reversed found the row stored earlier.
C3_Witness ==
    /\ eLast.status \in {"updated", "already_exists"}
    /\ eLast.a > eLast.b
    /\ Len(edges) = 1

Triples == QuestionIds \X DMemberIds \X DeliveryChannel

StatusRank(st) ==
    CASE st = "pending" -> 0
      [] st = "delivered" -> 1
      [] st = "viewed" -> 2
      [] OTHER -> 3

\* C4: assign_question_to_member called again for a triple it already
\* assigned returns the id of that one record.
C4_AssignIsIdempotent ==
    LET all == AssignedIds(deliveries, dLast.q, dLast.m, dLast.ch)
        mine == { i \in all : deliveries[i].created_by = "assign" }
    IN (dLast.op = "assign" /\ mine # {}) =>
          /\ dLast.id \in mine
          /\ Cardinality(all) = 1

\* C5: also with interleaved requests, a (question, member, channel) never
\* has two delivery records in a non-terminal status.
C5_AtMostOneActiveDelivery ==
    \A k \in Triples :
        Cardinality(MatchingIds(deliveries, k[1], k[2], k[3],
                                {"pending", "delivered", "viewed"})) <= 1

\* C6: once a triple has a record that left pending (or is terminal), no
\* later request adds a record for that triple.
C6_NoSecondRecord ==
    [][\A k \in Triples :
          MatchingIds(deliveries, k[1], k[2], k[3],
                      {"delivered", "viewed", "answered", "skipped", "expired"})
             # {}
          => Cardinality(AssignedIds(deliveries', k[1], k[2], k[3]))
               = Cardinality(AssignedIds(deliveries, k[1], k[2], k[3]))]_vars

C9_ResponseIsTerminalAndStamped ==
    /\ \A i \in 1..Len(deliveries) :
          deliveries[i].delivery_status \in {"answered", "skipped"}
             => deliveries[i].answered_at
    /\ (dLast.outcome = "ok" /\ dLast.op = "respond") =>
          /\ deliveries[dLast.id].delivery_status = "answered"
          /\ deliveries[dLast.id].answered_at
    /\ (dLast.outcome = "ok" /\ dLast.op \in {"skip", "not_my_vibe"}) =>
          /\ deliveries[dLast.id].delivery_status = "skipped"
          /\ deliveries[dLast.id].answered_at

\* C9 witness: an answer was recorded on a viewed record.
C9_Witness ==
    /\ dLast.op = "respond"
    /\ dLast.outcome = "ok"
    /\ deliveries[dLast.id].delivery_status = "answered"

(***************************************************************************)
(* The scorer on its own, and the batch sweep over a database that mobile  *)
(* requests of member 3 have written to before.                            *)
(***************************************************************************)
ScoreNext == ScoreCall

SpecScore == Init /\ [][ScoreNext]_vars

BatchSetupSkip ==
    /\ bt.pc = "idle"
    /\ \E m \in DMemberIds : SkipQuestion(7, m)
    /\ UNCHANGED <<edgeVars, targetingVars, queueVars, tasteVars>>

BatchSetupNext ==
    /\ bt.pc = "idle"
    /\ GetNextQuestion(3)
    /\ UNCHANGED <<edgeVars, targetingVars, queueVars, tasteVars>>

BatchStartCall ==
    \E ch \in DeliveryChannel, min_score \in MinScoreInputs,
       k \in 0..Len(deliveries) : BatchStart(ch, min_score, k)

BatchMemberStep ==
    \E resp \in ResponseInputs, roll \in RollInputs : BatchMember(resp, roll)

BatchNext ==
    \/ BatchSetupSkip
    \/ BatchSetupNext
    \/ BatchStartCall
    \/ BatchMemberStep
    \/ BatchReturn

SpecBatch == Init /\ [][BatchNext]_vars

(***************************************************************************)
(* The queue builder.                                                      *)
(***************************************************************************)
BuildQueueCall ==
    \E m \in DMemberIdInputs, source \in QuestionSources,
       answered \in AnsweredInputs, order \in RowOrders :
        BuildQueue(m, source, answered, order)

QueueNext == BuildQueueCall

SpecQueue == Init /\ [][QueueNext]_vars

SequenceAnyList ==
    \E S \in SUBSET DOMAIN SequenceItems, order \in RowOrders :
        SequenceCall(S, order)

SequenceNext == SequenceAnyList

SpecSequence == Init /\ [][SequenceNext]_vars

(***************************************************************************)
(* The taste profile store.                                                *)
(***************************************************************************)
UpdateTasteProfileCall ==
    \E m \in {3, 99}, updates \in UpdateInputs :
        /\ UpdateTasteProfile(m, updates)
        /\ UNCHANGED <<edgeVars, deliveryVars, targetingVars, queueVars>>

TasteNext == UpdateTasteProfileCall

SpecTaste == Init /\ [][TasteNext]_vars

(***************************************************************************)
(* Assignment and queue building side by side, for members and questions   *)
(* that may not exist; the queue builder sees an empty or a full pool.     *)
(***************************************************************************)
BuildQueueAnyMember ==
    \E m \in DMemberIdInputs, source \in QuestionSources,
       answered \in {{}, QueueQuestionIds} :
        BuildQueue(m, source, answered, "ascending")

LookupNext ==
    \/ AssignQuestionToMemberCall
    \/ BuildQueueAnyMember

SpecLookup == Init /\ [][LookupNext]_vars

(***************************************************************************)
(* Claims about save_edge's validation.                                    *)
(***************************************************************************)
ValidationErrors ==
    {"error_member_required", "error_self_edge", "error_type_required",
     "error_invalid_type", "error_strength_range"}

\* C11: a save_edge call with equal member ids, a missing member id, a
\* missing edge type, an edge type outside the enum or a strength outside
\* [0,100] returns a validation error and leaves every stored edge (rows,
\* strengths, evidence) exactly as it was.
C11_InvalidInputChangesNothing ==
    [][ (/\ eCalls' = eCalls + 1
         /\ eLast'.kind = "save"
         /\ \/ eLast'.a = 0 \/ eLast'.b = 0
            \/ eLast'.a = eLast'.b
            \/ eLast'.t = ""
            \/ eLast'.t \notin {"shared_skill", "shared_interest"}
            \/ eLast'.s < 0 \/ eLast'.s > 100)
        => (eLast'.status \in ValidationErrors /\ edges' = edges) ]_vars

\* A self-edge was rejected while an edge was stored.
C11_Witness ==
    /\ eLast.status = "error_self_edge"
    /\ eLast.a = eLast.b
    /\ Len(edges) = 1

(***************************************************************************)
(* Claims about the scorer and the batch sweep.                            *)
(***************************************************************************)
\* C12: every score returned by _score_question_for_member is the sum of
\* its five breakdown components and lies in [0,100], and each component
\* stays within its cap: pattern_relevance <= 30, edge_context <= 25,
\* taste_match in [0,25], freshness in [0,10], channel_fit <= 10.
C12_ScoreIsCappedSum ==
    sc.kind = "score" =>
        LET b == sc.result.breakdown
            t == sc.result.total_score
        IN /\ t = b.pattern_relevance + b.edge_context + b.taste_match
                  + b.freshness + b.channel_fit
           /\ 0 <= t /\ t <= 100
           /\ 0 <= b.pattern_relevance /\ b.pattern_relevance <= 30
           /\ 0 <= b.edge_context /\ b.edge_context <= 25
           /\ 0 <= b.taste_match /\ b.taste_match <= 25
           /\ 0 <= b.freshness /\ b.freshness <= 10
           /\ 0 <= b.channel_fit /\ b.channel_fit <= 10

\* A call where every component is at its cap.
C12_Witness ==
    /\ sc.kind = "score"
    /\ sc.result.total_score = 100
    /\ sc.result.breakdown.pattern_relevance = 30
    /\ sc.result.breakdown.edge_context = 25

\* The first five sorted candidates with a non-zero pattern or edge
\* component, read off the iteration record.
RelatedAmongFirstFive(it) ==
    { i \in 1..Len(it.scored) :
        /\ i <= 5
        /\ \/ it.scored[i].breakdown.pattern_relevance > 0
           \/ it.scored[i].breakdown.edge_context > 0 }

SortedDescending(it) ==
    \A i \in 1..Len(it.scored), j \in 1..Len(it.scored) :
        i < j => it.scored[i].score >= it.scored[j].score

\* C13 as stated: with a roll below 0.70 the top-scored candidate is chosen
\* if it meets min_score and nothing otherwise; with a roll in [0.70, 0.90)
\* the choice is one of the first five with a non-zero pattern or edge
\* component, and when there is none the top-scored candidate is chosen.
C13_SelectionBranches ==
    LET it == bt.last
    IN (it.member_id # 0 /\ Len(it.scored) > 0) =>
         /\ SortedDescending(it)
         /\ it.roll < 70 =>
               IF it.scored[1].score >= it.min_score
               THEN it.choice = Selection(1, "highest_score")
               ELSE it.choice.sel = 0
         /\ (it.roll >= 70 /\ it.roll < 90) =>
               IF RelatedAmongFirstFive(it) # {}
               THEN /\ it.choice.sel \in RelatedAmongFirstFive(it)
                    /\ it.choice.method = "top_5_random"
               ELSE it.choice = Selection(1, "highest_score_fallback")

\* C13, amended: as above, but when none of the first five has a non-zero
\* pattern or edge component the top-scored candidate is chosen (method
\* highest_score_fallback) only if its score meets min_score; otherwise
\* nothing is chosen.
C13_SelectionBranchesWithThreshold ==
    LET it == bt.last
    IN (it.member_id # 0 /\ Len(it.scored) > 0) =>
         /\ SortedDescending(it)
         /\ it.roll < 70 =>
               IF it.scored[1].score >= it.min_score
               THEN it.choice = Selection(1, "highest_score")
               ELSE it.choice.sel = 0
         /\ (it.roll >= 70 /\ it.roll < 90) =>
               IF RelatedAmongFirstFive(it) # {}
               THEN /\ it.choice.sel \in RelatedAmongFirstFive(it)
                    /\ it.choice.method = "top_5_random"
               ELSE IF it.scored[1].score >= it.min_score
               THEN it.choice = Selection(1, "highest_score_fallback")
               ELSE it.choice.sel = 0

\* A roll in [0.70, 0.90) chose among the first five while the sixth
\* candidate, which has a pattern component, stayed out of reach.
C13_Witness ==
    /\ bt.last.roll >= 70 /\ bt.last.roll < 90
    /\ bt.last.choice.method = "top_5_random"
    /\ Len(bt.last.scored) = 6
    /\ bt.last.scored[6].breakdown.pattern_relevance > 0

\* C14: with a roll of 0.90 or more the chosen candidate is any member of
\* the scored pool whatever its score, and it is the one assigned with
\* method wildcard (unless a record of it already exists).
C14_WildcardIsAssigned ==
    LET it == bt.last
    IN (it.member_id # 0 /\ Len(it.scored) > 0 /\ it.roll >= 90) =>
         /\ it.choice.method = "wildcard"
         /\ it.choice.sel \in 1..Len(it.scored)
         /\ \/ it.outcome = "assigned"
            \/ it.reason \in {"error_already_exists", "raised_multiple_results"}

\* C15: every delivery record, whichever operation created it, stores the
\* selection method and the scoring breakdown in its targeting_context.
C15_ContextRecordsMethodAndBreakdown ==
    \A i \in 1..Len(deliveries) :
        {"selection_method", "breakdown"} \subseteq deliveries[i].targeting_context

\* The members of the first n entries of the eligible list.
Processed(b) == { b.eligible[i] : i \in 1..(b.idx - 1) }

\* C16: the sweep never stops early.  Every member already passed has
\* exactly one entry, an assignment or a skip; an empty pool is a skip with
\* reason no_available_questions; an exception in one member's pass is a
\* skip of that member, and the loop goes on to the next member until the
\* result is returned with every eligible member accounted for.
C16_SweepSkipsAndContinues ==
    /\ bt.pc \in {"idle", "running", "done"}
    /\ bt.idx <= Len(bt.eligible) + 1
    /\ bt.pc = "done" => bt.idx = Len(bt.eligible) + 1
    /\ Len(bt.assignments) + Len(bt.skipped) = bt.idx - 1
    /\ bt.total_assigned = Len(bt.assignments)
    /\ \A m \in Processed(bt) :
         Cardinality({ i \in 1..Len(bt.assignments) :
                         bt.assignments[i].member_id = m })
         + Cardinality({ i \in 1..Len(bt.skipped) :
                           bt.skipped[i].member_id = m }) = 1
    /\ (bt.last.member_id # 0 /\ Len(bt.last.scored) = 0) =>
         /\ Len(bt.skipped) > 0
         /\ bt.skipped[Len(bt.skipped)] =
              Skipped(bt.last.member_id, "no_available_questions")
    /\ bt.last.outcome = "raised" =>
         /\ Len(bt.skipped) > 0
         /\ bt.skipped[Len(bt.skipped)] =
              Skipped(bt.last.member_id, bt.last.reason)

\* The sweep returned after member 3's pass raised and member 4 was
\* assigned a question.
C16_Witness ==
    /\ bt.pc = "done"
    /\ Len(bt.skipped) = 1
    /\ bt.skipped[1] = Skipped(3, "raised_multiple_results")
    /\ Len(bt.assignments) = 1
    /\ bt.assignments[1].member_id = 4

(***************************************************************************)
(* Claims about the queue builder.                                         *)
(***************************************************************************)
QueueReturned == qb.kind = "build_queue" /\ qb.outcome = "returned"

\* C17: for an existing member build_queue returns a queue of exactly
\* min(10, number of active questions the member has not answered) items,
\* numbered 1..n, with no question twice, and an empty queue with
\* total_available = 0 when the pool is empty.
C17_QueueIsMinTenOfPool ==
    (qb.kind = "build_queue" /\ qb.member_id \in {3, 4}) =>
        /\ qb.outcome = "returned"
        /\ Len(qb.queue) = Min2(10, Cardinality(QueueQuestionIds \ qb.answered))
        /\ \A i \in 1..Len(qb.queue) : qb.queue[i].position = i
        /\ \A i \in 1..Len(qb.queue), j \in 1..Len(qb.queue) :
              i # j => qb.queue[i].question_id # qb.queue[j].question_id
        /\ QueueQuestionIds \ qb.answered = {} =>
              (qb.queue = << >> /\ qb.total_available = 0)

\* The questions placed at positions below pos.
PlacedBefore(pos) == { qb.queue[i].question_id : i \in 1..(pos - 1) }

\* C18 as stated: positions 1-3 of a returned queue hold no difficulty-3
\* question while a difficulty-1 question tagged profile_gap of the
\* member's candidate pool is not yet placed.
C18_NoDeepBeforeEasyGapInPool ==
    QueueReturned =>
        \A pos \in 1..Min2(3, Len(qb.queue)) :
            qb.queue[pos].difficulty = 3 =>
                ~ \E i \in 1..Len(qb.scored) :
                     /\ qb.scored[i].difficulty = 1
                     /\ qb.scored[i].reason = "profile_gap"
                     /\ qb.scored[i].question_id \notin PlacedBefore(pos)

\* C18, amended: positions 1-3 of a returned queue hold no difficulty-3
\* question while a difficulty-1 question tagged profile_gap that is among
\* the ten highest-scoring candidates (the ones that are sequenced) is not
\* yet placed.
C18_NoDeepBeforeEasyGapInTopTen ==
    QueueReturned =>
        \A pos \in 1..Min2(3, Len(qb.queue)) :
            qb.queue[pos].difficulty = 3 =>
                ~ \E j \in 1..Len(qb.queue) :
                     /\ j > pos
                     /\ qb.queue[j].difficulty = 1
                     /\ qb.queue[j].reason = "profile_gap"

\* An easy profile_gap question leads the queue ahead of a deep question
\* with a higher score.
C18_Witness ==
    /\ QueueReturned
    /\ Len(qb.queue) = 10
    /\ qb.queue[1].difficulty = 1
    /\ qb.queue[1].reason = "profile_gap"
    /\ \E j \in 2..10 : /\ qb.queue[j].difficulty = 3
                         /\ qb.queue[j].score > qb.queue[1].score

\* What a scored question targets, for the member of the call.
ProbesAffine(id) ==
    QueueQuestions[id].related_pattern_ids \cap AffinePatternIds(qb.member_id) # {}
DeepensOwn(id) ==
    QueueQuestions[id].related_pattern_ids \cap MemberPatternIds(qb.member_id) # {}
TargetsGap(id) ==
    QueueQuestions[id].related_profile_fields
        \cap ProfileGaps(QueueMembers[qb.member_id]) # {}

C20_ProbeOutscoresUnlinked ==
    QueueReturned =>
        \A i \in 1..Len(qb.scored), j \in 1..Len(qb.scored) :
            LET a == QueueQuestions[qb.scored[i].question_id]
                b == QueueQuestions[qb.scored[j].question_id]
            IN (/\ Cardinality(a.related_pattern_ids) = 1
                /\ a.related_pattern_ids \subseteq AffinePatternIds(qb.member_id)
                /\ a.related_profile_fields = {}
                /\ b.related_pattern_ids = {}
                /\ b.related_profile_fields = {}
                /\ a.difficulty_level = b.difficulty_level)
               => LET p == CHOOSE p \in a.related_pattern_ids : TRUE
                      aff == Affinity(QueueMembers[qb.member_id], QueuePatterns[p])
                  IN /\ qb.scored[i].score - qb.scored[j].score = 10 * aff
                     /\ aff = 500 =>
                           qb.scored[i].score - qb.scored[j].score >= 5000
                     /\ qb.scored[i].reason = "pattern_probe"

\* Member 3, affine to pattern 10 at 0.5, had question 2 (pattern 10,
\* difficulty 2) and question 3 (no link, difficulty 2) scored.
C20_Witness ==
    /\ QueueReturned
    /\ qb.member_id = 3
    /\ Affinity(QueueMembers[3], QueuePatterns[10]) = 500
    /\ \E i \in 1..Len(qb.scored), j \in 1..Len(qb.scored) :
          /\ qb.scored[i].question_id = 2
          /\ qb.scored[j].question_id = 3
          /\ qb.scored[i].score = 5100
          /\ qb.scored[j].score = 100

\* C21: build_queue computes affinity only for active patterns that do not
\* list the member, every affinity (0.6 x skill overlap + 0.4 x interest
\* overlap) lies in [0,1], a pattern is kept as a probe candidate only at
\* affinity >= 0.3, and the probed patterns and the member's own patterns
\* are disjoint.
C21_AffinityOnlyForForeignPatterns ==
    (qb.kind = "build_queue" /\ qb.member_id \in DOMAIN QueueMembers) =>
        /\ \A p \in DOMAIN qb.pattern_affinities :
              /\ QueuePatterns[p].is_active
              /\ qb.member_id \notin QueuePatterns[p].related_member_ids
              /\ qb.pattern_affinities[p] >= 300
              /\ qb.pattern_affinities[p] <= 1000
        /\ \A p \in DOMAIN QueuePatterns :
              /\ Affinity(QueueMembers[qb.member_id], QueuePatterns[p]) >= 0
              /\ Affinity(QueueMembers[qb.member_id], QueuePatterns[p]) <= 1000
        /\ DOMAIN qb.pattern_affinities \cap qb.member_pattern_ids = {}

\* Member 3 ("Python", "ML", "Art") is in patterns 5 and 6 and is affine
\* at 0.5 to pattern 10 ("python", "Rust"; "art", "music") only, although
\* pattern 5 matches the member's skills and inactive pattern 13 the whole
\* profile.
C21_Witness ==
    /\ qb.kind = "build_queue"
    /\ qb.member_id = 3
    /\ qb.member_pattern_ids = {5, 6}
    /\ DOMAIN qb.pattern_affinities = {10}
    /\ qb.pattern_affinities[10] = 500
    /\ Affinity(QueueMembers[3], QueuePatterns[5]) = 600
    /\ Affinity(QueueMembers[3], QueuePatterns[13]) = 1000

\* How many of the first bucket's two preferences a queue item meets.
EasyGapMatch(item) ==
    (IF item.difficulty = 1 THEN 1 ELSE 0)
    + (IF item.reason = "profile_gap" THEN 1 ELSE 0)

\* The call analysed a member without bio, skills and interests.
BareMemberAnalysed ==
    /\ qb.kind = "build_queue"
    /\ qb.member_id \in DOMAIN QueueMembers
    /\ Len(qb.rows) > 0
    /\ QueueMembers[qb.member_id].bio_length = 0
    /\ QueueMembers[qb.member_id].skills = {}
    /\ QueueMembers[qb.member_id].interests = {}

\* C22 as stated: a member without bio, skills and interests has the gaps
\* bio, skills and interests, and in a returned queue no candidate with
\* another tag sits in positions 1-3 ahead of a candidate tagged
\* profile_gap.
C22_GapTaggedFillFront ==
    /\ BareMemberAnalysed => {"bio", "skills", "interests"} \subseteq qb.profile_gaps
    /\ QueueReturned =>
          \A i \in 1..Min2(3, Len(qb.queue)), j \in 1..Len(qb.queue) :
              (i < j /\ qb.queue[j].reason = "profile_gap")
                  => qb.queue[i].reason = "profile_gap"

\* C22, amended: the same gaps are detected, and positions 1-3 are filled
\* in order of how many of the two preferences (difficulty 1, tag
\* profile_gap) a candidate meets, so that no candidate in positions 1-3
\* sits ahead of one that meets more of them.
C22_EasyGapPreferredAtFront ==
    /\ BareMemberAnalysed => {"bio", "skills", "interests"} \subseteq qb.profile_gaps
    /\ QueueReturned =>
          \A i \in 1..Min2(3, Len(qb.queue)), j \in 1..Len(qb.queue) :
              i < j => EasyGapMatch(qb.queue[i]) >= EasyGapMatch(qb.queue[j])

\* The queue of the member with the empty profile opens with an easy
\* profile_gap question and holds an easy question with another tag among
\* positions 2-3 while profile_gap questions wait behind it.
C22_Witness ==
    /\ BareMemberAnalysed
    /\ QueueReturned
    /\ {"bio", "skills", "interests"} \subseteq qb.profile_gaps
    /\ Len(qb.queue) = 10
    /\ EasyGapMatch(qb.queue[1]) = 2
    /\ \E i \in 2..3 : /\ qb.queue[i].difficulty = 1
                        /\ qb.queue[i].reason # "profile_gap"
                        /\ \E j \in (i + 1)..10 : qb.queue[j].reason = "profile_gap"

(***************************************************************************)
(* Claims about unknown identifiers.                                       *)
(***************************************************************************)
\* C23: assign_question_to_member for a question id or member id that does
\* not exist returns a not-found error and creates no delivery record;
\* build_queue for a member id that does not exist returns None and
\* changes nothing.
C23_UnknownIdsChangeNothing ==
    [][/\ (/\ dOps' = dOps + 1
           /\ dLast'.op = "assign"
           /\ (dLast'.q \notin QuestionIds \/ dLast'.m \notin DMemberIds))
          => /\ dLast'.outcome \in {"error_question_not_found",
                                     "error_member_not_found"}
             /\ deliveries' = deliveries
             /\ members' = members
       /\ (/\ qb.kind = "none"
           /\ qb'.kind = "build_queue"
           /\ qb'.member_id \notin DOMAIN QueueMembers)
          => /\ qb'.outcome = "returned_none"
             /\ qb'.queue = << >>
             /\ UNCHANGED <<edges, deliveries, members>>]_vars

\* Both happened: an assignment to the unknown member 99 of an existing
\* question was refused next to an accepted one, and build_queue(99)
\* returned None.
C23_Witness ==
    /\ dLast.op = "assign"
    /\ dLast.q \in QuestionIds
    /\ dLast.m = 99
    /\ dLast.outcome = "error_member_not_found"
    /\ Len(deliveries) = 1
    /\ qb.kind = "build_queue"
    /\ qb.member_id = 99
    /\ qb.outcome = "returned_none"

(***************************************************************************)
(* Claims about the taste profile store.                                   *)
(***************************************************************************)
\* C24: after update_taste_profile a supplied list field holds the union of
\* the stored and the supplied list, a supplied affinity map has lost no
\* stored key, and only the contextual fields hold exactly what was
\* supplied.
C24_UpdateMergesNonContextual ==
    (tp.last.kind = "update_taste_profile" /\ tp.last.outcome = "success") =>
        LET after == tp.profiles[tp.last.member_id]
            before == tp.last.before
            updates == tp.last.updates
        IN /\ \A f \in ListFields \cap DOMAIN updates :
                 after[f] = before[f] \cup updates[f]
           /\ \A f \in AffinityFields \cap DOMAIN updates :
                 DOMAIN before[f] \subseteq DOMAIN after[f]
           /\ \A f \in ContextFields \cap DOMAIN updates :
                 after[f] = updates[f]

(***************************************************************************)
(* Claims about skipped questions.                                         *)
(***************************************************************************)
\* A delivery of question q to member m with status skipped (what
\* skip_question and mark_not_my_vibe leave behind).
SkippedBy(D, q, m) ==
    \E i \in 1..Len(D) : /\ D[i].question_id = q
                         /\ D[i].member_id = m
                         /\ D[i].delivery_status = "skipped"

\* C25: once member m has skipped question q, get_next_question(m) never
\* returns q and no targeting run creates a new delivery of q to m.
C25_SkippedNeverShownAgain ==
    [][/\ (/\ dOps' = dOps + 1
           /\ dLast'.op = "next"
           /\ dLast'.outcome = "ok")
          => ~SkippedBy(deliveries, dLast'.q, dLast'.m)
       /\ (/\ Len(deliveries') = Len(deliveries) + 1
           /\ deliveries'[Len(deliveries')].created_by = "assign")
          => ~SkippedBy(deliveries,
                        deliveries'[Len(deliveries')].question_id,
                        deliveries'[Len(deliveries')].member_id)]_vars

(***************************************************************************)
(* Claims about the shares of the selection branches.                      *)
(***************************************************************************)
\* Every roll, in hundredths, paired with the method tag it leaves behind
\* for the candidates of the last pass.
RollMethods ==
    UNION { { <<r, c.method>> :
                c \in SelectionChoices(bt.last.scored, r, bt.last.min_score) } :
            r \in 0..99 }

BucketDifficulty(pos) == IF pos <= 3 THEN 1 ELSE IF pos <= 7 THEN 2 ELSE 3
BucketReason(pos) ==
    IF pos <= 3 THEN "profile_gap"
    ELSE IF pos <= 7 THEN "pattern_probe" ELSE "pattern_deepen"

\* How many of the preferences of position pos an item meets.
MatchCount(item, pos) ==
    (IF item.difficulty = BucketDifficulty(pos) THEN 1 ELSE 0)
    + (IF item.reason = BucketReason(pos) THEN 1 ELSE 0)

\* C27: for a list of at most 10 scored questions _sequence returns a
\* permutation of it, and the item at every position is, among the items
\* not placed earlier, one with the highest match count for the
\* position's bucket (positions 1-3, 4-7, 8-10) and, among those, the
\* highest score; short and empty lists are sequenced like any other.
C27_SequenceIsGreedyPermutation ==
    qb.kind = "_sequence" =>
        /\ Len(qb.result) = Len(qb.input)
        /\ \A i \in 1..Len(qb.input) :
              Cardinality({ j \in 1..Len(qb.result) :
                              qb.result[j] = qb.input[i] }) = 1
        /\ \A i \in 1..Len(qb.result), j \in 1..Len(qb.result) :
              i < j =>
                \/ MatchCount(qb.result[i], i) > MatchCount(qb.result[j], i)
                \/ /\ MatchCount(qb.result[i], i) = MatchCount(qb.result[j], i)
                   /\ qb.result[i].score >= qb.result[j].score

\* Ten items were sequenced into an order that is not the order given:
\* an easy profile_gap item leads, the medium pattern_probe items open the
\* second bucket and the deep items fill the third.
C27_Witness ==
    /\ qb.kind = "_sequence"
    /\ Len(qb.input) = 10
    /\ qb.result # qb.input
    /\ qb.result[1].difficulty = 1 /\ qb.result[1].reason = "profile_gap"
    /\ qb.result[4].difficulty = 2 /\ qb.result[4].reason = "pattern_probe"
    /\ \A i \in 8..10 : qb.result[i].difficulty = 3

(***************************************************************************)
(* Claims about the edge context component.                                *)
(***************************************************************************)
\* C28 as stated: edge_context is 25 when the question's relevant members
\* intersect the member's connections, else 20 when the question's single
\* referenced connection is one of them, else 5 whenever the member has a
\* connection, and 0 only when the member has none.
C28_EdgeContextLevels ==
    sc.kind = "score" =>
        sc.result.breakdown.edge_context =
            IF sc.question.relevant_member_ids \cap sc.connected # {} THEN 25
            ELSE IF sc.question.connected_member_id \in sc.connected THEN 20
            ELSE IF sc.connected # {} THEN 5
            ELSE 0

\* C28, amended: as above, but the 5 is given only when the member has a
\* connection and the question's relevant-member list is not empty; the
\* component is 0 when the member has no connections or the question
\* names no relevant member.
C28_EdgeContextLevelsForNamedMembers ==
    sc.kind = "score" =>
        sc.result.breakdown.edge_context =
            IF sc.question.relevant_member_ids \cap sc.connected # {} THEN 25
            ELSE IF sc.question.connected_member_id \in sc.connected THEN 20
            ELSE IF /\ sc.connected # {}
                    /\ sc.question.relevant_member_ids # {}
            THEN 5
            ELSE 0

\* A member with a connection was scored on a question that names no
\* relevant member and references no connection: the component is 0.
C28_Witness ==
    /\ sc.kind = "score"
    /\ sc.connected # {}
    /\ sc.question.relevant_member_ids = {}
    /\ sc.question.connected_member_id \notin sc.connected
    /\ sc.result.breakdown.edge_context = 0

(***************************************************************************)
(* Claims about the result of a targeting run.                             *)
(***************************************************************************)
\* The delivery records that assign_question_to_member created.
AssignedRecordIds ==
    { i \in 1..Len(deliveries) : deliveries[i].created_by = "assign" }

\* C29: when batch_target_questions returns, every eligible member is in
\* exactly one of assignments and skipped, exactly once, and nobody else
\* is; total_assigned is the number of assignments; every assignment has
\* its own new pending delivery record on the run's channel and there is
\* no other new record.
C29_ResultAccountsForEveryMember ==
    bt.pc = "done" =>
        /\ \A m \in SeqToSet(bt.eligible) :
              Cardinality({ i \in 1..Len(bt.assignments) :
                              bt.assignments[i].member_id = m })
              + Cardinality({ i \in 1..Len(bt.skipped) :
                                bt.skipped[i].member_id = m }) = 1
        /\ Len(bt.assignments) + Len(bt.skipped) = Len(bt.eligible)
        /\ bt.total_assigned = Len(bt.assignments)
        /\ Cardinality(AssignedRecordIds) = Len(bt.assignments)
        /\ \A i \in 1..Len(bt.assignments) :
              Cardinality({ d \in AssignedRecordIds :
                  /\ deliveries[d].question_id = bt.assignments[i].question_id
                  /\ deliveries[d].member_id = bt.assignments[i].member_id
                  /\ deliveries[d].channel = bt.channel
                  /\ deliveries[d].delivery_status = "pending" }) = 1

\* A run over two eligible members returned with one of them assigned a
\* question and the other skipped for want of a candidate above min_score.
C29_Witness ==
    /\ bt.pc = "done"
    /\ Len(bt.eligible) = 2
    /\ Len(bt.assignments) = 1
    /\ Len(bt.skipped) = 1
    /\ bt.skipped[1].reason = "no_question_met_threshold"
    /\ bt.assignments[1].member_id # bt.skipped[1].member_id

(***************************************************************************)
(* Claims about terminal delivery statuses.                                *)
(***************************************************************************)
\* C30: a delivery record in a terminal status (answered, skipped,
\* expired) never changes status again, also when a response and a skip
\* for the same card both read the record while it is viewed.
C30_TerminalStatusIsFinal ==
    [][\A i \in 1..Len(deliveries) :
          deliveries[i].delivery_status \in TerminalStatuses
              => deliveries'[i].delivery_status = deliveries[i].delivery_status]_vars

====
